---- MODULE Spec2Model ----
(***************************************************************************)
(* The two file converters of src/main/ipc/handlers.ts:                    *)
(*   convertStlToObj   (binary STL -> Wavefront OBJ text)                  *)
(*   convertDicomToPng (DICOM pixel data -> 8-bit grayscale RGBA raster)   *)
(* Each converter is a sequential async function; the model gives it a     *)
(* program counter and one action per phase of its body.                   *)
(* The IPC handlers select-model-files and select-dicom-folder call the    *)
(* converters in a loop over the selected paths; for them the model keeps  *)
(* a file system and one record per running call of a converter.           *)
(***************************************************************************)
EXTENDS Integers, Sequences, FiniteSets

VARIABLES
    stlPc,        \* position inside convertStlToObj
    stlFile,      \* content of the file at stlFilePath
    geometry,     \* BufferGeometry returned by loader.parse
    objContent,   \* the OBJ text built so far, as a sequence of lines
    objFile,      \* content of the file at objFilePath: <<>> = not written
    stlResult     \* settled value of the promise: "pending", "path", "error"

stlVars == <<stlPc, stlFile, geometry, objContent, objFile, stlResult>>

VARIABLES
    dcmPc,          \* position inside convertDicomToPng and its caller's try/catch
    dicomFile,      \* content of the file at dicomFilePath
    rows,           \* const rows
    columns,        \* const columns
    bitsAllocated,  \* const bitsAllocated
    pixelData,      \* the typed array over the pixel-data element
    png,            \* the PNG object: width and height (png.data is PngData below)
    minValue,       \* let minValue
    maxValue,       \* let maxValue
    pngFile,        \* content of the file at pngFilePath: <<>> = not written
    dcmResult,      \* settled value of the promise: "pending", "path", "error"
    dcmError,       \* message of the error thrown, "" when none
    convertedFiles  \* number of entries of the caller's convertedFiles

dcmVars == <<dcmPc, dicomFile, rows, columns, bitsAllocated, pixelData, png,
             minValue, maxValue, pngFile, dcmResult, dcmError, convertedFiles>>

VARIABLES
    rsPc,        \* position inside one iteration of the raster loop
    rawValue,    \* const rawValue of the current iteration
    pixelValue,  \* let pixelValue of the current iteration, <<>> before it is set
    prevRaw,     \* rawValue of the iteration before, <<>> in the first one
    prevPixel    \* pixelValue of the iteration before, <<>> in the first one

rsVars == <<rsPc, rawValue, pixelValue, prevRaw, prevPixel>>

VARIABLES
    fs,              \* the file system: content of every path
    entries,         \* the paths the dialog offers / fs.readdir lists, in order
    handler,         \* the IPC channel invoked, "none" when no handler runs
    hPc,             \* position inside the handler
    filePaths,       \* result.filePaths (select-model-files), dicomFiles (select-dicom-folder)
    idx,             \* 1-based position of the for...of loop
    processedFiles,  \* processedFiles (select-model-files), convertedFiles (select-dicom-folder)
    iterations,      \* one record an iteration of the loop: its path and what became of it
    handlerResult,   \* what the handler's promise settled to
    conv             \* the running calls of convertStlToObj / convertDicomToPng

hVars == <<fs, entries, handler, hPc, filePaths, idx, processedFiles, iterations,
           handlerResult, conv>>

VARIABLES
    disk,           \* import-to-unity: the files under the source folders and the project
    impPc,          \* position inside the import-to-unity handler
    selectedFiles,  \* its argument selectedFiles
    dicomFolder,    \* its argument selectedDicomFolder, <<>> when none is selected
    impIdx,         \* 1-based position of the loop over the files to copy
    results,        \* const results
    pending,        \* copyPngFilesFromFolder: the entries still to visit, depth first
    impResult       \* what the handler's promise settled to, <<>> while pending

impVars == <<disk, impPc, selectedFiles, dicomFolder, impIdx, results, pending, impResult>>

(* ipcMain.handle('build-unity') *)
VARIABLES
    buildDisk,        \* what fs.access finds: one boolean per path looked at
    buildPc,          \* position of the handler
    checked,          \* the checks made so far, in order
    unityExecutable,  \* let unityExecutable
    useUnityHub,      \* let useUnityHub
    proc,             \* the spawned process: which of its events have fired
    code,             \* the exit code handed to the 'close' listener, -1 for null
    buildExists,      \* let buildExists of the 'close' listener
    resolveCalls,     \* how many times resolve was called
    buildResult       \* what the handler's promise settled to

buildVars == <<buildDisk, buildPc, checked, unityExecutable, useUnityHub, proc,
               code, buildExists, resolveCalls, buildResult>>

(* class ConsoleLogger *)
VARIABLES
    mainWindow,     \* private mainWindow: 0 for null, else the window
    destroyed,      \* the windows whose isDestroyed() is true
    console,        \* the four methods of the global console
    lastOp,         \* the operation made last
    lastCall        \* what the last console call did

logVars == <<mainWindow, destroyed, console, lastOp, lastCall>>

(* function App of the renderer: the names taken by import-to-unity above *)
(* carry the prefix app                                                    *)
VARIABLES
    api,                  \* window.api?.importToUnity is there
    appSelectedFiles,     \* useState selectedFiles
    appDicomFolder,       \* useState selectedDicomFolder
    appUnityProjectPath,  \* useState unityProjectPath
    status,               \* useState status
    isExecuting,          \* useState isExecuting
    currentStep,          \* useState currentStep
    handleImportPc,       \* position of handleImport
    invoked               \* the arguments of each importToUnity call, in order

appVars == <<api, appSelectedFiles, appDicomFolder, appUnityProjectPath, status,
             isExecuting, currentStep, handleImportPc, invoked>>

uVars == <<impVars, buildVars, logVars, appVars>>

vars == <<stlVars, dcmVars, rsVars, hVars, uVars>>

notImport == <<stlVars, dcmVars, rsVars, hVars, buildVars, logVars, appVars>>

notBuild == <<stlVars, dcmVars, rsVars, hVars, impVars, logVars, appVars>>

notLog == <<stlVars, dcmVars, rsVars, hVars, impVars, buildVars, appVars>>

notApp == <<stlVars, dcmVars, rsVars, hVars, impVars, buildVars, logVars>>

----------------------------------------------------------------------------
(* Bounds of the model *)

MaxFaces == 2

MaxDim == 2

MaxBytes == 4

MaxDefaultedBytes == 1

MaxSample == 5

MaxSelected == 2

MaxCalls == 2

MaxImported == 2

MaxArray == 5

MaxButtons == 4

MaxWindows == 2

MaxInvoked == 2

----------------------------------------------------------------------------
(* Binary STL input.  A file is an 80-byte header, a uint32 triangle count *)
(* and 50-byte records (normal, three vertices, attribute word).  Only     *)
(* what the parser looks at is kept: whether the header starts with the    *)
(* text "solid", the declared count, and the records actually present.     *)

Coords == { <<0, 0, 0>>, <<1, 0, 0>> }

NormalVectors == { <<0, 0, 0>>, <<0, 0, 1>> }

Triangles == [n : NormalVectors, v : [1..3 -> Coords]]

RecordSeqs == UNION { [1..k -> Triangles] : k \in 0..MaxFaces }

StlFiles == [solid : BOOLEAN, faces : 0..MaxFaces, records : RecordSeqs]

(* reader.byteLength: 84 bytes of header and count, 50 bytes a record *)
ByteLength(file) == 84 + 50 * Len(file.records)

(* STLLoader.isBinary: binary when the length matches the declared count,  *)
(* otherwise ASCII exactly when the data begins with "solid".              *)
isBinary(file) ==
    IF 84 + file.faces * 50 = ByteLength(file)
    THEN TRUE
    ELSE ~file.solid

RECURSIVE FlatPositions(_, _)
FlatPositions(records, faces) ==
    IF faces = 0 THEN << >>
    ELSE LET t == records[faces]
         IN  FlatPositions(records, faces - 1) \o t.v[1] \o t.v[2] \o t.v[3]

RECURSIVE FlatNormals(_, _)
FlatNormals(records, faces) ==
    IF faces = 0 THEN << >>
    ELSE LET t == records[faces]
         IN  FlatNormals(records, faces - 1) \o t.n \o t.n \o t.n

NoGeometry == [ok |-> FALSE, position |-> << >>, hasNormal |-> FALSE, normal |-> << >>]

(* STLLoader.parseBinary: one position and one copy of the face normal per *)
(* vertex; reading a record beyond the end of the DataView throws.         *)
parseBinary(file) ==
    IF 84 + file.faces * 50 > ByteLength(file)
    THEN NoGeometry
    ELSE [ok |-> TRUE,
          position |-> FlatPositions(file.records, file.faces),
          hasNormal |-> TRUE,
          normal |-> FlatNormals(file.records, file.faces)]

(* STLLoader.parseASCII on data that holds no "facet ... endfacet" text:   *)
(* both attributes are set, both empty.                                    *)
parseASCII(file) ==
    [ok |-> TRUE, position |-> << >>, hasNormal |-> TRUE, normal |-> << >>]

parse(file) == IF isBinary(file) THEN parseBinary(file) ELSE parseASCII(file)

----------------------------------------------------------------------------
(* OBJ text, one tuple per line *)

HeaderLine == <<"#", "Converted from STL">>

RECURSIVE DistinctTriples(_, _)
DistinctTriples(positions, k) ==
    IF k = 0 THEN << >>
    ELSE LET rest == DistinctTriples(positions, k - 1)
             line == <<"v", positions[3 * k - 2], positions[3 * k - 1], positions[3 * k]>>
         IN  IF \E j \in 1..Len(rest) : rest[j] = line THEN rest ELSE Append(rest, line)

(* a vertex loop that merges geometrically identical positions *)
VertexLinesDeduplicated(positions) == DistinctTriples(positions, Len(positions) \div 3)

(* for (let i = 0; i < positions.length; i += 3) objContent += `v ...` *)
VertexLines(positions) ==
    [k \in 1..((Len(positions) + 2) \div 3) |->
        <<"v", positions[3 * k - 2], positions[3 * k - 1], positions[3 * k]>>]

(* a normal loop that emits one normal per triangle (i += 9) *)
NormalLinesPerFace(normals) ==
    [k \in 1..((Len(normals) + 8) \div 9) |->
        <<"vn", normals[9 * k - 8], normals[9 * k - 7], normals[9 * k - 6]>>]

(* for (let i = 0; i < normals.length; i += 3) objContent += `vn ...` *)
NormalLines(normals) ==
    [k \in 1..((Len(normals) + 2) \div 3) |->
        <<"vn", normals[3 * k - 2], normals[3 * k - 1], normals[3 * k]>>]

(* a face loop that starts at index 0 instead of 1 *)
FaceLinesZeroBased(vertexCount, hasNormal) ==
    [k \in 1..((vertexCount + 2) \div 3) |->
        LET i == 3 * (k - 1)
        IN  IF hasNormal
            THEN <<"f", <<i, i>>, <<i + 1, i + 1>>, <<i + 2, i + 2>>>>
            ELSE <<"f", <<i>>, <<i + 1>>, <<i + 2>>>>]

(* a face loop whose body runs before its test (do ... while) *)
FaceLinesDoWhile(vertexCount, hasNormal) ==
    [k \in 1..(IF vertexCount = 0 THEN 1 ELSE (vertexCount + 2) \div 3) |->
        LET i == 3 * (k - 1) + 1
        IN  IF hasNormal
            THEN <<"f", <<i, i>>, <<i + 1, i + 1>>, <<i + 2, i + 2>>>>
            ELSE <<"f", <<i>>, <<i + 1>>, <<i + 2>>>>]

(* a face loop that advances by one vertex instead of three (i += 1) *)
FaceLinesUnitStride(vertexCount, hasNormal) ==
    [i \in 1..vertexCount |->
        IF hasNormal
        THEN <<"f", <<i, i>>, <<i + 1, i + 1>>, <<i + 2, i + 2>>>>
        ELSE <<"f", <<i>>, <<i + 1>>, <<i + 2>>>>]

(* for (let i = 1; i <= vertexCount; i += 3) objContent += `f ...` *)
FaceLines(vertexCount, hasNormal) ==
    [k \in 1..((vertexCount + 2) \div 3) |->
        LET i == 3 * (k - 1) + 1
        IN  IF hasNormal
            THEN <<"f", <<i, i>>, <<i + 1, i + 1>>, <<i + 2, i + 2>>>>
            ELSE <<"f", <<i>>, <<i + 1>>, <<i + 2>>>>]

----------------------------------------------------------------------------
(* convertStlToObj *)

StlInit ==
    /\ stlPc = "start"
    /\ stlFile \in StlFiles
    /\ geometry = NoGeometry
    /\ objContent = << >>
    /\ objFile = << >>
    /\ stlResult = "pending"

(* const stlData = await fs.readFile(stlFilePath) *)
StlReadFile ==
    /\ stlPc = "start"
    /\ stlPc' = "read"
    /\ UNCHANGED <<stlFile, geometry, objContent, objFile, stlResult>>
    /\ UNCHANGED <<dcmVars, rsVars, hVars, uVars>>

(* const geometry = loader.parse(arrayBuffer); a throw rejects the promise *)
StlParse ==
    /\ stlPc = "read"
    /\ LET g == parse(stlFile)
       IN  IF g.ok
           THEN /\ geometry' = g
                /\ objContent' = <<HeaderLine>>
                /\ stlPc' = "parsed"
                /\ stlResult' = stlResult
           ELSE /\ geometry' = geometry
                /\ objContent' = objContent
                /\ stlPc' = "failed"
                /\ stlResult' = "error"
    /\ UNCHANGED <<stlFile, objFile>>
    /\ UNCHANGED <<dcmVars, rsVars, hVars, uVars>>

StlAddVertices ==
    /\ stlPc = "parsed"
    /\ objContent' = objContent \o VertexLines(geometry.position)
    /\ stlPc' = "vertices"
    /\ UNCHANGED <<stlFile, geometry, objFile, stlResult>>
    /\ UNCHANGED <<dcmVars, rsVars, hVars, uVars>>

StlAddNormals ==
    /\ stlPc = "vertices"
    /\ objContent' = IF geometry.hasNormal
                     THEN objContent \o NormalLines(geometry.normal)
                     ELSE objContent
    /\ stlPc' = "normals"
    /\ UNCHANGED <<stlFile, geometry, objFile, stlResult>>
    /\ UNCHANGED <<dcmVars, rsVars, hVars, uVars>>

StlAddFaces ==
    /\ stlPc = "normals"
    /\ objContent' = objContent \o
                        FaceLines(Len(geometry.position) \div 3, geometry.hasNormal)
    /\ stlPc' = "faces"
    /\ UNCHANGED <<stlFile, geometry, objFile, stlResult>>
    /\ UNCHANGED <<dcmVars, rsVars, hVars, uVars>>

(* await fs.writeFile(objFilePath, objContent, 'utf8'); return objFilePath *)
StlWriteFile ==
    /\ stlPc = "faces"
    /\ objFile' = <<objContent>>
    /\ stlPc' = "done"
    /\ stlResult' = "path"
    /\ UNCHANGED <<stlFile, geometry, objContent>>
    /\ UNCHANGED <<dcmVars, rsVars, hVars, uVars>>

StlNext ==
    \/ StlReadFile
    \/ StlParse
    \/ StlAddVertices
    \/ StlAddNormals
    \/ StlAddFaces
    \/ StlWriteFile

----------------------------------------------------------------------------
(* DICOM input.  Of the parsed data set only what convertDicomToPng reads   *)
(* is kept: whether parseDicom accepts the bytes, whether element x7fe00010 *)
(* exists, the three uint16 attributes (<<>> = absent, dataSet.uint16       *)
(* gives undefined) and the bytes of the pixel-data element.                *)

ByteValues == {0, 1, 255}

BytesUpTo(n) == UNION { [1..k -> ByteValues] : k \in 0..n }

Absent == << >>

DimAttrs == {Absent} \cup { <<d>> : d \in 1..MaxDim }

BitsAttrs == {Absent, <<8>>, <<16>>, <<32>>}

(* rows and columns both present *)
SizedFiles ==
    [parses : {TRUE}, hasPixelData : {TRUE},
     rowsAttr : DimAttrs \ {Absent}, columnsAttr : DimAttrs \ {Absent},
     bitsAttr : BitsAttrs, bytes : BytesUpTo(MaxBytes)]

(* rows or columns omitted *)
DefaultedFiles ==
    { f \in [parses : {TRUE}, hasPixelData : {TRUE},
             rowsAttr : DimAttrs, columnsAttr : DimAttrs,
             bitsAttr : {Absent, <<8>>}, bytes : BytesUpTo(MaxDefaultedBytes)] :
        f.rowsAttr = Absent \/ f.columnsAttr = Absent }

(* a data set without pixel-data element, and bytes parseDicom rejects *)
OtherFiles ==
    [parses : BOOLEAN, hasPixelData : {FALSE},
     rowsAttr : DimAttrs, columnsAttr : DimAttrs,
     bitsAttr : {Absent, <<16>>}, bytes : { << >> }]

DicomFiles == SizedFiles \cup DefaultedFiles \cup OtherFiles

DefaultRows == 512

DefaultColumns == 512

DefaultBitsAllocated == 16

(* an attribute read that forgets the default *)
OrDefaultForgotten(attr, default) == IF Len(attr) = 0 THEN 0 ELSE attr[1]

(* dataSet.uint16(tag) || default: undefined and 0 both give the default *)
OrDefault(attr, default) ==
    IF Len(attr) = 0 \/ attr[1] = 0 THEN default ELSE attr[1]

(* a check of the pixel-data element that never fires *)
PixelDataNeverMissing(file) == FALSE

(* !pixelDataElement *)
PixelDataMissing(file) == ~file.hasPixelData

(* new Uint16Array(buffer, dataOffset, length / 2): little-endian words, a  *)
(* trailing odd byte is not part of the view                                *)
Uint16View(bytes) ==
    [i \in 1..(Len(bytes) \div 2) |-> bytes[2 * i - 1] + 256 * bytes[2 * i]]

(* new Uint8Array(buffer, dataOffset, length) *)
Uint8View(bytes) == bytes

TypedArray(bits, bytes) == IF bits = 16 THEN Uint16View(bytes) ELSE Uint8View(bytes)

(* JavaScript Infinity: above every sample a typed array can hold *)
Infinity == 65536

(* the scan loop over the first n samples: <<minValue, maxValue>> *)
RECURSIVE Scan(_, _)
Scan(data, n) ==
    IF n = 0 THEN <<Infinity, 0 - Infinity>>
    ELSE LET m == Scan(data, n - 1)
             value == data[n]
         IN  <<IF value < m[1] THEN value ELSE m[1],
               IF value > m[2] THEN value ELSE m[2]>>

(* for (let i = 0; i < pixelData.length; i++) *)
FullScan(data) == Scan(data, Len(data))

(* pixelData[pixelIdx] || 0: an index outside the array reads undefined *)
RawValue(data, pixelIdx) == IF pixelIdx < Len(data) THEN data[pixelIdx + 1] ELSE 0

(* Math.round(num / den) for den > 0: halves round up *)
MathRound(num, den) == (2 * num + den) \div (2 * den)

(* Math.max(0, Math.min(255, pixelValue)) *)
Clamp(v) == IF v < 0 THEN 0 ELSE IF v > 255 THEN 255 ELSE v

(* a rescale that truncates instead of rounding *)
PixelValueTruncated(raw, lo, valueRange) ==
    Clamp(IF valueRange > 0 THEN ((raw - lo) * 255) \div valueRange ELSE 128)

(* the value stored in the R, G and B bytes for one raw sample *)
PixelValue(raw, lo, valueRange) ==
    Clamp(IF valueRange > 0 THEN MathRound((raw - lo) * 255, valueRange) ELSE 128)

(* The raster loop                                                          *)
(*   for y in 0..rows-1, for x in 0..columns-1:                             *)
(*     idx = (rows * y + x) << 2;  png.data[idx .. idx+3] = v, v, v, 255    *)
(* stores pixel number rows*y + x; a store beyond the buffer is dropped.    *)
(* The iterations that store pixel p are those with rows*y <= p and         *)
(* p - rows*y < columns, and the last of them in loop order is the one with *)
(* the greatest y, which is LastRow(p) whenever there is one.               *)
LastRow(p) == IF p \div rows < rows - 1 THEN p \div rows ELSE rows - 1

Stored(p) == p - rows * LastRow(p) < columns

Rasterized == dcmPc \in {"rasterized", "done", "returned"}

PixelCount == png.width * png.height

(* png.data after Buffer.alloc and the raster loop, one RGBA tuple a pixel *)
PngData(p) ==
    IF Rasterized /\ Stored(p)
    THEN LET y == LastRow(p)
             x == p - rows * y
             v == PixelValue(RawValue(pixelData, y * columns + x),
                             minValue, maxValue - minValue)
         IN  <<v, v, v, 255>>
    ELSE <<0, 0, 0, 0>>

(* The raster loop iteration by iteration, for rasters small enough to be *)
(* enumerated: data after the first k iterations, iteration k - 1 having   *)
(* y = (k - 1) div columns and x = (k - 1) mod columns.                    *)
RECURSIVE RasterLoop(_, _)
RasterLoop(data, k) ==
    IF k = 0 THEN data
    ELSE LET d == RasterLoop(data, k - 1)
             y == (k - 1) \div columns
             x == (k - 1) % columns
             p == rows * y + x
             v == PixelValue(RawValue(pixelData, y * columns + x),
                             minValue, maxValue - minValue)
         IN  IF p \in DOMAIN d THEN [d EXCEPT ![p] = <<v, v, v, 255>>] ELSE d

(* Buffer.alloc(4 * width * height) *)
BufferAlloc == [p \in 0..(PixelCount - 1) |-> <<0, 0, 0, 0>>]

(* PngData is what the loop leaves in the buffer *)
RasterLoopAgrees ==
    (Rasterized /\ rows <= MaxDim /\ columns <= MaxDim) =>
        \A p \in 0..(PixelCount - 1) :
            PngData(p) = RasterLoop(BufferAlloc, rows * columns)[p]

----------------------------------------------------------------------------
(* convertDicomToPng, and the try/catch of the select-dicom-folder loop *)

DcmInit ==
    /\ dcmPc = "start"
    /\ dicomFile \in DicomFiles
    /\ rows = 0
    /\ columns = 0
    /\ bitsAllocated = 0
    /\ pixelData = << >>
    /\ png = [width |-> 0, height |-> 0]
    /\ minValue = Infinity
    /\ maxValue = 0 - Infinity
    /\ pngFile = << >>
    /\ dcmResult = "pending"
    /\ dcmError = ""
    /\ convertedFiles = 0

(* const dicomData = await fs.readFile(dicomFilePath) *)
DicomReadFile ==
    /\ dcmPc = "start"
    /\ dcmPc' = "read"
    /\ UNCHANGED <<dicomFile, rows, columns, bitsAllocated, pixelData, png,
                   minValue, maxValue, pngFile, dcmResult, dcmError, convertedFiles>>
    /\ UNCHANGED <<stlVars, rsVars, hVars, uVars>>

(* parseDicom, the pixel-data check, the attributes, the typed array and    *)
(* new PNG({ width: columns, height: rows })                                *)
DicomParse ==
    /\ dcmPc = "read"
    /\ IF ~dicomFile.parses
       THEN /\ dcmPc' = "thrown"
            /\ dcmError' = "dicomParser.parseDicom failed"
            /\ UNCHANGED <<rows, columns, bitsAllocated, pixelData, png>>
       ELSE IF PixelDataMissing(dicomFile)
       THEN /\ dcmPc' = "thrown"
            /\ dcmError' = "No pixel data found in DICOM file"
            /\ UNCHANGED <<rows, columns, bitsAllocated, pixelData, png>>
       ELSE /\ dcmPc' = "parsed"
            /\ dcmError' = dcmError
            /\ rows' = OrDefault(dicomFile.rowsAttr, DefaultRows)
            /\ columns' = OrDefault(dicomFile.columnsAttr, DefaultColumns)
            /\ bitsAllocated' = OrDefault(dicomFile.bitsAttr, DefaultBitsAllocated)
            /\ pixelData' = TypedArray(bitsAllocated', dicomFile.bytes)
            /\ png' = [width |-> columns', height |-> rows']
    /\ UNCHANGED <<dicomFile, minValue, maxValue, pngFile, dcmResult, convertedFiles>>
    /\ UNCHANGED <<stlVars, rsVars, hVars, uVars>>

(* the min/max loop *)
DicomScan ==
    /\ dcmPc = "parsed"
    /\ dcmPc' = "scanned"
    /\ minValue' = FullScan(pixelData)[1]
    /\ maxValue' = FullScan(pixelData)[2]
    /\ UNCHANGED <<dicomFile, rows, columns, bitsAllocated, pixelData, png,
                   pngFile, dcmResult, dcmError, convertedFiles>>
    /\ UNCHANGED <<stlVars, rsVars, hVars, uVars>>

(* a raster loop placed before the min/max loop *)
DicomRasterizeUnscanned ==
    /\ dcmPc = "parsed"
    /\ dcmPc' = "rasterized"
    /\ UNCHANGED <<dicomFile, rows, columns, bitsAllocated, pixelData, png,
                   minValue, maxValue, pngFile, dcmResult, dcmError, convertedFiles>>
    /\ UNCHANGED <<stlVars, rsVars, hVars, uVars>>

(* the raster loop: its effect on png.data is PngData *)
DicomRasterize ==
    /\ dcmPc = "scanned"
    /\ dcmPc' = "rasterized"
    /\ UNCHANGED <<dicomFile, rows, columns, bitsAllocated, pixelData, png,
                   minValue, maxValue, pngFile, dcmResult, dcmError, convertedFiles>>
    /\ UNCHANGED <<stlVars, rsVars, hVars, uVars>>

(* await fs.writeFile(pngFilePath, PNG.sync.write(png)); return pngFilePath *)
DicomWriteFile ==
    /\ dcmPc = "rasterized"
    /\ dcmPc' = "done"
    /\ pngFile' = <<png>>
    /\ dcmResult' = "path"
    /\ UNCHANGED <<dicomFile, rows, columns, bitsAllocated, pixelData, png,
                   minValue, maxValue, dcmError, convertedFiles>>
    /\ UNCHANGED <<stlVars, rsVars, hVars, uVars>>

(* catch (error) { console.error(...); throw error } *)
DicomRethrow ==
    /\ dcmPc = "thrown"
    /\ dcmPc' = "failed"
    /\ dcmResult' = "error"
    /\ UNCHANGED <<dicomFile, rows, columns, bitsAllocated, pixelData, png,
                   minValue, maxValue, pngFile, dcmError, convertedFiles>>
    /\ UNCHANGED <<stlVars, rsVars, hVars, uVars>>

(* caller: const pngFile = await convertDicomToPng(f); convertedFiles.push *)
HandlerPush ==
    /\ dcmPc = "done"
    /\ dcmPc' = "returned"
    /\ convertedFiles' = convertedFiles + 1
    /\ UNCHANGED <<dicomFile, rows, columns, bitsAllocated, pixelData, png,
                   minValue, maxValue, pngFile, dcmResult, dcmError>>
    /\ UNCHANGED <<stlVars, rsVars, hVars, uVars>>

(* caller: catch (error) { console.error(...) }, nothing is pushed *)
HandlerCatch ==
    /\ dcmPc = "failed"
    /\ dcmPc' = "caught"
    /\ UNCHANGED <<dicomFile, rows, columns, bitsAllocated, pixelData, png,
                   minValue, maxValue, pngFile, dcmResult, dcmError, convertedFiles>>
    /\ UNCHANGED <<stlVars, rsVars, hVars, uVars>>

DcmNext ==
    \/ DicomReadFile
    \/ DicomParse
    \/ DicomScan
    \/ DicomRasterize
    \/ DicomWriteFile
    \/ DicomRethrow
    \/ HandlerPush
    \/ HandlerCatch

----------------------------------------------------------------------------
(* The file system calls of the converters rejecting *)

(* await fs.readFile(stlFilePath) rejects *)
StlReadFails ==
    /\ stlPc = "start"
    /\ stlPc' = "failed"
    /\ stlResult' = "error"
    /\ UNCHANGED <<stlFile, geometry, objContent, objFile>>
    /\ UNCHANGED <<dcmVars, rsVars, hVars, uVars>>

(* await fs.writeFile(objFilePath, objContent, 'utf8') rejects: before the  *)
(* file was opened, or after it was opened and truncated and only the first *)
(* k lines reached it                                                       *)
StlWriteFails ==
    /\ stlPc = "faces"
    /\ stlPc' = "failed"
    /\ stlResult' = "error"
    /\ objFile' \in {objFile} \cup
                    { <<SubSeq(objContent, 1, k)>> : k \in 0..(Len(objContent) - 1) }
    /\ UNCHANGED <<stlFile, geometry, objContent>>
    /\ UNCHANGED <<dcmVars, rsVars, hVars, uVars>>

(* await fs.readFile(dicomFilePath) rejects, inside the try *)
DicomReadFails ==
    /\ dcmPc = "start"
    /\ dcmPc' = "thrown"
    /\ dcmError' = "fs.readFile failed"
    /\ UNCHANGED <<dicomFile, rows, columns, bitsAllocated, pixelData, png,
                   minValue, maxValue, pngFile, dcmResult, convertedFiles>>
    /\ UNCHANGED <<stlVars, rsVars, hVars, uVars>>

(* await fs.writeFile(pngFilePath, pngBuffer) rejects, inside the try:      *)
(* before the file was opened, or with part of the buffer written           *)
DicomWriteFails ==
    /\ dcmPc = "rasterized"
    /\ dcmPc' = "thrown"
    /\ dcmError' = "fs.writeFile failed"
    /\ pngFile' \in {pngFile,
                     <<[width |-> png.width, height |-> png.height, truncated |-> TRUE]>>}
    /\ UNCHANGED <<dicomFile, rows, columns, bitsAllocated, pixelData, png,
                   minValue, maxValue, dcmResult, convertedFiles>>
    /\ UNCHANGED <<stlVars, rsVars, hVars, uVars>>

FsFails ==
    \/ StlReadFails
    \/ StlWriteFails
    \/ DicomReadFails
    \/ DicomWriteFails

----------------------------------------------------------------------------
(* The rescale of one sample, lines 117-128 of the raster loop, applied to *)
(* samples and scan results drawn from a bounded set                        *)

SampleValues == (0..MaxSample) \cup {500, 1000, 65535}

RsInit ==
    /\ rsPc = "raw"
    /\ minValue \in SampleValues
    /\ maxValue \in { m \in SampleValues : m >= minValue }
    /\ rawValue \in SampleValues
    /\ pixelValue = << >>
    /\ prevRaw = << >>
    /\ prevPixel = << >>

(* pixelValue = ...; pixelValue = Math.max(0, Math.min(255, pixelValue)) *)
RescaleSample ==
    /\ rsPc = "raw"
    /\ rsPc' = "scaled"
    /\ pixelValue' = <<PixelValue(rawValue, minValue, maxValue - minValue)>>
    /\ UNCHANGED <<rawValue, prevRaw, prevPixel, minValue, maxValue>>
    /\ UNCHANGED <<dcmPc, dicomFile, rows, columns, bitsAllocated, pixelData, png,
                   pngFile, dcmResult, dcmError, convertedFiles>>
    /\ UNCHANGED <<stlVars, hVars, uVars>>

(* the next iteration reads the next sample *)
NextSample ==
    /\ rsPc = "scaled"
    /\ rsPc' = "raw"
    /\ prevRaw' = <<rawValue>>
    /\ prevPixel' = pixelValue
    /\ rawValue' \in SampleValues
    /\ pixelValue' = << >>
    /\ UNCHANGED <<minValue, maxValue>>
    /\ UNCHANGED <<dcmPc, dicomFile, rows, columns, bitsAllocated, pixelData, png,
                   pngFile, dcmResult, dcmError, convertedFiles>>
    /\ UNCHANGED <<stlVars, hVars, uVars>>

RsNext ==
    \/ RescaleSample
    \/ NextSample

----------------------------------------------------------------------------
(* Paths.  A path is the part of its base name before the last dot and the *)
(* rest; the directory plays no part in what the handlers do with it.      *)
(* Stem "" is a dot file such as ".stl".                                   *)

Stems == {"", "a", "b"}

Exts == {".stl", ".STL", ".obj", ".dcm", ".DCM", ".png"}

Paths == [stem : Stems, ext : Exts]

NoPath == [stem |-> "", ext |-> ""]

(* String.prototype.toLowerCase on an extension *)
ToLowerCase(ext) ==
    CASE ext = ".STL" -> ".stl"
      [] ext = ".DCM" -> ".dcm"
      [] OTHER -> ext

(* path.extname: a leading dot of the base name does not start an extension *)
extname(p) == IF p.stem = "" THEN "" ELSE p.ext

(* file.name.toLowerCase().endsWith(suffix) *)
EndsWith(p, suffix) == ToLowerCase(p.ext) = suffix

(* a replace whose pattern lacks the i flag: /\.stl$/ *)
ReplaceExtCaseSensitive(p, from, to) ==
    IF p.ext = from THEN [p EXCEPT !.ext = to] ELSE p

(* filePath.replace(/\.stl$/i, '.obj'), filePath.replace(/\.dcm$/i, '.png'): *)
(* a path that does not end in the extension is returned as it is           *)
ReplaceExt(p, from, to) ==
    IF ToLowerCase(p.ext) = from THEN [p EXCEPT !.ext = to] ELSE p

----------------------------------------------------------------------------
(* File contents.  Every content has the same fields; at most one of stl,  *)
(* dcm, text, image is non-empty.  complete = FALSE: only a proper prefix   *)
(* of the bytes is on disk (a write that failed part-way).                  *)

NoFile ==
    [exists |-> FALSE, isFile |-> FALSE, complete |-> TRUE,
     stl |-> << >>, dcm |-> << >>, text |-> << >>, image |-> << >>]

Directory == [NoFile EXCEPT !.exists = TRUE]

(* a regular file that no converter reads or wrote *)
OtherFile == [NoFile EXCEPT !.exists = TRUE, !.isFile = TRUE]

StlContent(file) == [OtherFile EXCEPT !.stl = <<file>>]

DcmContent(file) == [OtherFile EXCEPT !.dcm = <<file>>]

ObjContent(lines) == [OtherFile EXCEPT !.text = <<lines>>]

PngContent(img) == [OtherFile EXCEPT !.image = <<img>>]

Partial(content) == [content EXCEPT !.complete = FALSE]

(* the STL files on disk: two one-triangle files, and one whose only record *)
(* is missing                                                               *)
StlSamples ==
    { [solid |-> FALSE, faces |-> 1,
       records |-> <<[n |-> <<0, 0, 1>>, v |-> [c \in 1..3 |-> <<0, 0, 0>>]]>>],
      [solid |-> FALSE, faces |-> 1,
       records |-> <<[n |-> <<0, 0, 1>>, v |-> [c \in 1..3 |-> <<1, 0, 0>>]]>>],
      [solid |-> FALSE, faces |-> 1, records |-> << >>] }

(* the DICOM files on disk: two 1 x 2 images, and one without pixel data *)
DicomSamples ==
    { [parses |-> TRUE, hasPixelData |-> TRUE, rowsAttr |-> <<1>>,
       columnsAttr |-> <<2>>, bitsAttr |-> <<8>>, bytes |-> <<0, 255>>],
      [parses |-> TRUE, hasPixelData |-> TRUE, rowsAttr |-> <<1>>,
       columnsAttr |-> <<2>>, bitsAttr |-> <<8>>, bytes |-> <<255, 0>>],
      [parses |-> TRUE, hasPixelData |-> FALSE, rowsAttr |-> Absent,
       columnsAttr |-> Absent, bitsAttr |-> Absent, bytes |-> << >>] }

----------------------------------------------------------------------------
(* The converters as functions of the bytes read *)

(* loader.parse on the bytes read; only STL data is given to it here *)
ParsedStl(content) ==
    IF Len(content.stl) = 1 THEN parse(content.stl[1]) ELSE NoGeometry

(* objContent at the call of fs.writeFile *)
ObjText(file) ==
    LET g == parse(file)
    IN  <<HeaderLine>>
            \o VertexLines(g.position)
            \o (IF g.hasNormal THEN NormalLines(g.normal) ELSE << >>)
            \o FaceLines(Len(g.position) \div 3, g.hasNormal)

(* convertDicomToPng throws before it builds the raster *)
DicomThrows(content) ==
    \/ Len(content.dcm) # 1
    \/ ~content.dcm[1].parses
    \/ PixelDataMissing(content.dcm[1])

(* the PNG object at the call of PNG.sync.write *)
PngImage(file) ==
    LET r == OrDefault(file.rowsAttr, DefaultRows)
        c == OrDefault(file.columnsAttr, DefaultColumns)
        data == TypedArray(OrDefault(file.bitsAttr, DefaultBitsAllocated), file.bytes)
        m == FullScan(data)
        lastRow(p) == IF p \div r < r - 1 THEN p \div r ELSE r - 1
    IN  [width |-> c, height |-> r,
         data |-> [p \in 0..(r * c - 1) |->
                     LET y == lastRow(p)
                         x == p - r * y
                         v == PixelValue(RawValue(data, y * c + x), m[1], m[2] - m[1])
                     IN  IF x < c THEN <<v, v, v, 255>> ELSE <<0, 0, 0, 0>>]]

----------------------------------------------------------------------------
(* One call of a converter, at the grain of its awaits *)

Calls == 1..MaxCalls

loopVars == <<entries, handler, hPc, filePaths, idx, processedFiles, iterations,
              handlerResult>>

NoCall ==
    [kind |-> "none", path |-> NoPath, pc |-> "idle", data |-> NoFile,
     out |-> NoFile, outPath |-> NoPath, result |-> "pending"]

(* convertStlToObj(path) / convertDicomToPng(path) has been called *)
NewCall(kind, path) == [NoCall EXCEPT !.kind = kind, !.path = path, !.pc = "start"]

(* a converter that keeps the bytes it read in one module-level variable *)
BufferShared(t) == conv[1].data

(* const stlData / const dicomData: local to the call *)
Buffer(t) == conv[t].data

(* await fs.readFile(path): rejects when the path is not a readable file *)
ConvReadFile(t) ==
    /\ conv[t].pc = "start"
    /\ LET c == conv[t]
       IN  conv' = [conv EXCEPT ![t] =
                       IF fs[c.path].isFile
                       THEN [c EXCEPT !.data = fs[c.path], !.pc = "read"]
                       ELSE [c EXCEPT !.pc = "failed", !.result = "error"]]
    /\ UNCHANGED <<fs, loopVars>>
    /\ UNCHANGED <<stlVars, dcmVars, rsVars, uVars>>

(* the synchronous part between the two awaits: parse, build the output and *)
(* the output path; a throw rejects the promise                             *)
ConvParse(t) ==
    /\ conv[t].pc = "read"
    /\ LET c == conv[t]
           failed == [c EXCEPT !.pc = "failed", !.result = "error"]
       IN  conv' = [conv EXCEPT ![t] =
                       IF c.kind = "stl"
                       THEN IF ParsedStl(Buffer(t)).ok
                            THEN [c EXCEPT !.out = ObjContent(ObjText(Buffer(t).stl[1])),
                                           !.outPath = ReplaceExt(c.path, ".stl", ".obj"),
                                           !.pc = "computed"]
                            ELSE failed
                       ELSE IF ~DicomThrows(Buffer(t))
                            THEN [c EXCEPT !.out = PngContent(PngImage(Buffer(t).dcm[1])),
                                           !.outPath = ReplaceExt(c.path, ".dcm", ".png"),
                                           !.pc = "computed"]
                            ELSE failed]
    /\ UNCHANGED <<fs, loopVars>>
    /\ UNCHANGED <<stlVars, dcmVars, rsVars, uVars>>

(* await fs.writeFile(outPath, out); return outPath *)
ConvWriteFile(t) ==
    /\ conv[t].pc = "computed"
    /\ fs' = [fs EXCEPT ![conv[t].outPath] = conv[t].out]
    /\ conv' = [conv EXCEPT ![t].pc = "done", ![t].result = "path"]
    /\ UNCHANGED loopVars
    /\ UNCHANGED <<stlVars, dcmVars, rsVars, uVars>>

(* fs.writeFile rejects: before the file was opened, or after it was opened *)
(* for writing and only part of the bytes reached it                        *)
ConvWriteFails(t) ==
    /\ conv[t].pc = "computed"
    /\ fs' \in {fs, [fs EXCEPT ![conv[t].outPath] = Partial(conv[t].out)]}
    /\ conv' = [conv EXCEPT ![t].pc = "failed", ![t].result = "error"]
    /\ UNCHANGED loopVars
    /\ UNCHANGED <<stlVars, dcmVars, rsVars, uVars>>

ConvNext(t) ==
    \/ ConvReadFile(t)
    \/ ConvParse(t)
    \/ ConvWriteFile(t)
    \/ ConvWriteFails(t)

----------------------------------------------------------------------------
(* ipcMain.handle('select-model-files') *)

Pending == [kind |-> "pending", files |-> << >>]

(* what one iteration of a handler's loop did with its path *)
Iteration(path, outcome) == [path |-> path, outcome |-> outcome]

(* dialog.showOpenDialog; if (result.canceled || !result.filePaths) return null *)
SmfDialog ==
    /\ handler = "select-model-files"
    /\ hPc = "dialog"
    /\ \/ /\ hPc' = "returned"
          /\ handlerResult' = [kind |-> "null", files |-> << >>]
          /\ UNCHANGED filePaths
       \/ /\ hPc' = "loop"
          /\ filePaths' = entries
          /\ UNCHANGED handlerResult
    /\ UNCHANGED <<fs, entries, handler, idx, processedFiles, iterations, conv>>
    /\ UNCHANGED <<stlVars, dcmVars, rsVars, uVars>>

(* ext !== '.stl': processedFiles.push(filePath) *)
SmfPassThrough ==
    /\ handler = "select-model-files"
    /\ hPc = "loop"
    /\ idx <= Len(filePaths)
    /\ ToLowerCase(extname(filePaths[idx])) # ".stl"
    /\ processedFiles' = Append(processedFiles, filePaths[idx])
    /\ iterations' = Append(iterations, Iteration(filePaths[idx], "none"))
    /\ idx' = idx + 1
    /\ UNCHANGED <<fs, entries, handler, hPc, filePaths, handlerResult, conv>>
    /\ UNCHANGED <<stlVars, dcmVars, rsVars, uVars>>

(* ext === '.stl': await convertStlToObj(filePath) *)
SmfConvert ==
    /\ handler = "select-model-files"
    /\ hPc = "loop"
    /\ idx <= Len(filePaths)
    /\ ToLowerCase(extname(filePaths[idx])) = ".stl"
    /\ conv' = [conv EXCEPT ![1] = NewCall("stl", filePaths[idx])]
    /\ hPc' = "await"
    /\ UNCHANGED <<fs, entries, handler, filePaths, idx, processedFiles, iterations,
                   handlerResult>>
    /\ UNCHANGED <<stlVars, dcmVars, rsVars, uVars>>

(* processedFiles.push(objFilePath) *)
SmfPush ==
    /\ handler = "select-model-files"
    /\ hPc = "await"
    /\ conv[1].pc = "done"
    /\ processedFiles' = Append(processedFiles, conv[1].outPath)
    /\ iterations' = Append(iterations, Iteration(filePaths[idx], "path"))
    /\ idx' = idx + 1
    /\ hPc' = "loop"
    /\ UNCHANGED <<fs, entries, handler, filePaths, handlerResult, conv>>
    /\ UNCHANGED <<stlVars, dcmVars, rsVars, uVars>>

(* a catch that logs the error and drops the file *)
SmfCatchDrops ==
    /\ handler = "select-model-files"
    /\ hPc = "await"
    /\ conv[1].pc = "failed"
    /\ iterations' = Append(iterations, Iteration(filePaths[idx], "error"))
    /\ idx' = idx + 1
    /\ hPc' = "loop"
    /\ UNCHANGED <<fs, entries, handler, filePaths, processedFiles, handlerResult, conv>>
    /\ UNCHANGED <<stlVars, dcmVars, rsVars, uVars>>

(* catch (error): processedFiles.push(filePath) *)
SmfCatch ==
    /\ handler = "select-model-files"
    /\ hPc = "await"
    /\ conv[1].pc = "failed"
    /\ processedFiles' = Append(processedFiles, filePaths[idx])
    /\ iterations' = Append(iterations, Iteration(filePaths[idx], "error"))
    /\ idx' = idx + 1
    /\ hPc' = "loop"
    /\ UNCHANGED <<fs, entries, handler, filePaths, handlerResult, conv>>
    /\ UNCHANGED <<stlVars, dcmVars, rsVars, uVars>>

(* return processedFiles *)
SmfReturn ==
    /\ handler = "select-model-files"
    /\ hPc = "loop"
    /\ idx > Len(filePaths)
    /\ handlerResult' = [kind |-> "files", files |-> processedFiles]
    /\ hPc' = "returned"
    /\ UNCHANGED <<fs, entries, handler, filePaths, idx, processedFiles, iterations, conv>>
    /\ UNCHANGED <<stlVars, dcmVars, rsVars, uVars>>

SmfNext ==
    \/ SmfDialog
    \/ SmfPassThrough
    \/ SmfConvert
    \/ SmfPush
    \/ SmfCatch
    \/ SmfReturn

----------------------------------------------------------------------------
(* ipcMain.handle('select-dicom-folder') *)

(* file.isFile() && file.name.toLowerCase().endsWith('.dcm') *)
IsDicomFile(p) == fs[p].isFile /\ EndsWith(p, ".dcm")

(* dialog.showOpenDialog; if (result.canceled || !result.filePaths[0]) return null *)
SdfDialog ==
    /\ handler = "select-dicom-folder"
    /\ hPc = "dialog"
    /\ \/ /\ hPc' = "returned"
          /\ handlerResult' = [kind |-> "null", files |-> << >>]
       \/ /\ hPc' = "chosen"
          /\ UNCHANGED handlerResult
    /\ UNCHANGED <<fs, entries, handler, filePaths, idx, processedFiles, iterations, conv>>
    /\ UNCHANGED <<stlVars, dcmVars, rsVars, uVars>>

(* const files = await fs.readdir(selectedFolder, ...); const dicomFiles = ... *)
SdfReaddir ==
    /\ handler = "select-dicom-folder"
    /\ hPc = "chosen"
    /\ filePaths' = SelectSeq(entries, IsDicomFile)
    /\ hPc' = "loop"
    /\ UNCHANGED <<fs, entries, handler, idx, processedFiles, iterations, handlerResult,
                   conv>>
    /\ UNCHANGED <<stlVars, dcmVars, rsVars, uVars>>

(* fs.readdir rejects: the outer catch returns selectedFolder *)
SdfReaddirFails ==
    /\ handler = "select-dicom-folder"
    /\ hPc = "chosen"
    /\ handlerResult' = [kind |-> "selectedFolder", files |-> << >>]
    /\ hPc' = "returned"
    /\ UNCHANGED <<fs, entries, handler, filePaths, idx, processedFiles, iterations, conv>>
    /\ UNCHANGED <<stlVars, dcmVars, rsVars, uVars>>

(* const pngFile = await convertDicomToPng(dicomFile) *)
SdfConvert ==
    /\ handler = "select-dicom-folder"
    /\ hPc = "loop"
    /\ idx <= Len(filePaths)
    /\ conv' = [conv EXCEPT ![1] = NewCall("dcm", filePaths[idx])]
    /\ hPc' = "await"
    /\ UNCHANGED <<fs, entries, handler, filePaths, idx, processedFiles, iterations,
                   handlerResult>>
    /\ UNCHANGED <<stlVars, dcmVars, rsVars, uVars>>

(* convertedFiles.push(pngFile) *)
SdfPush ==
    /\ handler = "select-dicom-folder"
    /\ hPc = "await"
    /\ conv[1].pc = "done"
    /\ processedFiles' = Append(processedFiles, conv[1].outPath)
    /\ iterations' = Append(iterations, Iteration(filePaths[idx], "path"))
    /\ idx' = idx + 1
    /\ hPc' = "loop"
    /\ UNCHANGED <<fs, entries, handler, filePaths, handlerResult, conv>>
    /\ UNCHANGED <<stlVars, dcmVars, rsVars, uVars>>

(* a catch that gives up on the rest of the folder (break) *)
SdfCatchBreaks ==
    /\ handler = "select-dicom-folder"
    /\ hPc = "await"
    /\ conv[1].pc = "failed"
    /\ iterations' = Append(iterations, Iteration(filePaths[idx], "error"))
    /\ idx' = Len(filePaths) + 1
    /\ hPc' = "loop"
    /\ UNCHANGED <<fs, entries, handler, filePaths, processedFiles, handlerResult, conv>>
    /\ UNCHANGED <<stlVars, dcmVars, rsVars, uVars>>

(* catch (error): console.error, continue with the next file *)
SdfCatch ==
    /\ handler = "select-dicom-folder"
    /\ hPc = "await"
    /\ conv[1].pc = "failed"
    /\ iterations' = Append(iterations, Iteration(filePaths[idx], "error"))
    /\ idx' = idx + 1
    /\ hPc' = "loop"
    /\ UNCHANGED <<fs, entries, handler, filePaths, processedFiles, handlerResult, conv>>
    /\ UNCHANGED <<stlVars, dcmVars, rsVars, uVars>>

(* return selectedFolder *)
SdfReturn ==
    /\ handler = "select-dicom-folder"
    /\ hPc = "loop"
    /\ idx > Len(filePaths)
    /\ handlerResult' = [kind |-> "selectedFolder", files |-> << >>]
    /\ hPc' = "returned"
    /\ UNCHANGED <<fs, entries, handler, filePaths, idx, processedFiles, iterations, conv>>
    /\ UNCHANGED <<stlVars, dcmVars, rsVars, uVars>>

SdfNext ==
    \/ SdfDialog
    \/ SdfReaddir
    \/ SdfReaddirFails
    \/ SdfConvert
    \/ SdfPush
    \/ SdfCatch
    \/ SdfReturn

----------------------------------------------------------------------------
(* What is on disk when a handler is invoked *)

(* the paths selected in the dialog / the entries of the selected folder:  *)
(* up to MaxSelected different paths, in any order                         *)
Selections ==
    { s \in UNION { [1..k -> Paths] : k \in 1..MaxSelected } :
        \A i, j \in DOMAIN s : i # j => s[i] # s[j] }

(* the contents a path can have; what a handler never reads is opaque *)
ContentsAt(h, p) ==
    IF h = "select-model-files" /\ ToLowerCase(p.ext) = ".stl"
    THEN { StlContent(f) : f \in StlSamples }
    ELSE IF h = "select-dicom-folder" /\ ToLowerCase(p.ext) = ".dcm"
    THEN { DcmContent(f) : f \in DicomSamples } \cup {Directory}
    ELSE {OtherFile}

(* the file systems that hold exactly the paths of sel *)
Disks(h, sel) ==
    LET choices == { c \in [DOMAIN sel -> UNION { ContentsAt(h, sel[i]) : i \in DOMAIN sel }] :
                       \A i \in DOMAIN sel : c[i] \in ContentsAt(h, sel[i]) }
    IN  { [p \in Paths |->
              IF \E i \in DOMAIN sel : sel[i] = p
              THEN c[CHOOSE i \in DOMAIN sel : sel[i] = p]
              ELSE NoFile] : c \in choices }

HandlersInit ==
    /\ handler \in {"select-model-files", "select-dicom-folder"}
    /\ entries \in Selections
    /\ fs \in Disks(handler, entries)
    /\ hPc = "dialog"
    /\ filePaths = << >>
    /\ idx = 1
    /\ processedFiles = << >>
    /\ iterations = << >>
    /\ handlerResult = Pending
    /\ conv = [t \in Calls |-> NoCall]

HandlersNext ==
    \/ SmfNext
    \/ SdfNext
    \/ ConvNext(1)

(* no handler runs *)
HandlersIdle ==
    /\ fs = [p \in Paths |-> NoFile]
    /\ entries = << >>
    /\ handler = "none"
    /\ hPc = "idle"
    /\ filePaths = << >>
    /\ idx = 1
    /\ processedFiles = << >>
    /\ iterations = << >>
    /\ handlerResult = Pending
    /\ conv = [t \in Calls |-> NoCall]

----------------------------------------------------------------------------
(* Overlapping invocations: several calls of the converters in flight, each *)
(* on a path a handler would pass, the paths all different                  *)

(* the calls the handlers make: convertStlToObj on extname .stl,            *)
(* convertDicomToPng on names ending in .dcm                                *)
HandlerCalls ==
    { NewCall("stl", p) : p \in { q \in Paths : ToLowerCase(extname(q)) = ".stl" } }
        \cup { NewCall("dcm", p) : p \in { q \in Paths : EndsWith(q, ".dcm") } }

(* the regular files a call can find at its path *)
SourcesOf(call) ==
    IF call.kind = "stl"
    THEN { StlContent(f) : f \in StlSamples }
    ELSE { DcmContent(f) : f \in DicomSamples }

(* The calls are on different paths.  Which call is number 1 makes no       *)
(* difference to what they do, so they are numbered in the order of their   *)
(* paths.                                                                   *)
OverlapInit ==
    /\ conv \in { c \in [Calls -> HandlerCalls] :
                    LET rank(p) ==
                            (CASE p.stem = "" -> 0 [] p.stem = "a" -> 1 [] OTHER -> 2) * 4
                          + (CASE p.ext = ".stl" -> 0 [] p.ext = ".STL" -> 1
                               [] p.ext = ".dcm" -> 2 [] OTHER -> 3)
                    IN  \A t, u \in Calls : t < u => rank(c[t].path) < rank(c[u].path) }
    /\ \E src \in [Calls -> UNION { SourcesOf(call) : call \in HandlerCalls }] :
          /\ \A t \in Calls : src[t] \in SourcesOf(conv[t])
          /\ fs = [p \in Paths |->
                     IF \E t \in Calls : conv[t].path = p
                     THEN src[CHOOSE t \in Calls : conv[t].path = p]
                     ELSE NoFile]
    /\ entries = << >>
    /\ handler = "none"
    /\ hPc = "idle"
    /\ filePaths = << >>
    /\ idx = 1
    /\ processedFiles = << >>
    /\ iterations = << >>
    /\ handlerResult = Pending

OverlapNext == \E t \in Calls : ConvNext(t)

----------------------------------------------------------------------------
(* import-to-unity.  A path is the sequence of its segments; a file content *)
(* is a string, "" where nothing exists and "dir" for a directory.          *)

join(dir, name) == Append(dir, name)

basename(p) == p[Len(p)]

unityProjectPath == <<"project">>

resourcesPath == join(join(unityProjectPath, "Assets"), "Resources")

modelsPath == join(resourcesPath, "Models")

dicomPath == join(resourcesPath, "DICOM")

(* the model files that can be selected: two names in two folders, the      *)
(* files of folder d1 holding "x" and those of d2 holding "y"               *)
ModelPaths == { <<d, n>> : d \in {"d1", "d2"}, n \in {"a.obj", "b.obj"} }

ModelContent(p) == IF p[1] = "d1" THEN "x" ELSE "y"

(* the selected DICOM folder: up to three files and a subfolder of up to    *)
(* two files, listed by fs.readdir in this order                            *)
scanFolder == <<"scan">>

RootEntries == <<"i.png", "J.PNG", "k.dcm", "sub">>

SubEntries == <<"i.png", "k.dcm">>

ScanPaths ==
    {scanFolder}
        \cup { join(scanFolder, RootEntries[i]) : i \in DOMAIN RootEntries }
        \cup { join(join(scanFolder, "sub"), SubEntries[i]) : i \in DOMAIN SubEntries }

DiskPaths ==
    ModelPaths \cup ScanPaths
        \cup {resourcesPath, modelsPath, dicomPath}
        \cup { join(modelsPath, basename(p)) : p \in ModelPaths }
        \cup { dicomPath \o p : p \in ScanPaths }

IsRegularFile(content) == content \notin {"", "dir"}

(* String.prototype.toLowerCase on an entry name *)
NameToLowerCase(name) == IF name = "J.PNG" THEN "j.png" ELSE name

(* the lower-case names that end in .png *)
PngNames == {"i.png", "j.png"}

(* a test without toLowerCase: entry.name.endsWith('.png') *)
EndsWithPngCaseSensitive(name) == name \in PngNames

(* entry.name.toLowerCase().endsWith('.png') *)
EndsWithPng(name) == NameToLowerCase(name) \in PngNames

(* fs.readdir: the entries of a directory that exist, in listing order *)
Readdir(fsys, dir) ==
    LET names == IF dir = scanFolder THEN RootEntries ELSE SubEntries
    IN  SelectSeq([i \in DOMAIN names |-> join(dir, names[i])],
                  LAMBDA e : fsys[e] # "")

Success(destinationPath) ==
    [success |-> TRUE, destinationPath |-> destinationPath, error |-> ""]

Failure(error) == [success |-> FALSE, destinationPath |-> << >>, error |-> error]

(* the folders a selected DICOM folder can be *)
ScanTrees ==
    { t \in [ScanPaths -> {"", "x", "dir"}] :
        /\ t[scanFolder] = "dir"
        /\ t[join(scanFolder, "sub")] \in {"", "dir"}
        /\ \A p \in ScanPaths \ {scanFolder, join(scanFolder, "sub")} : t[p] # "dir"
        /\ t[join(scanFolder, "sub")] = "" =>
              \A p \in ScanPaths : Len(p) = 3 => t[p] = "" }

ImportInit ==
    /\ impPc = "start"
    /\ selectedFiles \in UNION { [1..k -> ModelPaths] : k \in 0..MaxImported }
    /\ dicomFolder \in {<< >>, scanFolder}
    /\ \E present \in SUBSET { selectedFiles[i] : i \in DOMAIN selectedFiles } :
       \E tree \in IF dicomFolder = << >> THEN {[p \in ScanPaths |-> ""]} ELSE ScanTrees :
          disk = [p \in DiskPaths |->
                    IF p \in present THEN ModelContent(p)
                    ELSE IF p \in ScanPaths THEN tree[p]
                    ELSE ""]
    /\ impIdx = 1
    /\ results = << >>
    /\ pending = << >>
    /\ impResult = << >>

(* fs.mkdir of Resources, Models and DICOM, { recursive: true } *)
ImpMkdir ==
    /\ impPc = "start"
    /\ disk' = [disk EXCEPT ![resourcesPath] = "dir", ![modelsPath] = "dir",
                            ![dicomPath] = "dir"]
    /\ impPc' = "files"
    /\ UNCHANGED <<selectedFiles, dicomFolder, impIdx, results, pending, impResult>>
    /\ UNCHANGED notImport

(* one of the three fs.mkdir rejects: the outer catch returns one entry *)
ImpMkdirFails ==
    /\ impPc = "start"
    /\ impResult' = <<Failure("Import failed")>>
    /\ impPc' = "returned"
    /\ UNCHANGED <<disk, selectedFiles, dicomFolder, impIdx, results, pending>>
    /\ UNCHANGED notImport

(* one pass of the loop over selectedFiles whose fs.copyFile succeeds *)
ImpCopyFile ==
    /\ impPc = "files"
    /\ impIdx \in DOMAIN selectedFiles
    /\ LET filePath == selectedFiles[impIdx]
           destinationPath == join(modelsPath, basename(filePath))
       IN  /\ IsRegularFile(disk[filePath])
           /\ disk' = [disk EXCEPT ![destinationPath] = disk[filePath]]
           /\ results' = Append(results, Success(destinationPath))
    /\ impIdx' = impIdx + 1
    /\ UNCHANGED <<impPc, selectedFiles, dicomFolder, pending, impResult>>
    /\ UNCHANGED notImport

ImpCopyFileDropsFailure ==
    /\ impPc = "files"
    /\ impIdx \in DOMAIN selectedFiles
    /\ ~IsRegularFile(disk[selectedFiles[impIdx]])
    /\ impIdx' = impIdx + 1
    /\ UNCHANGED <<disk, impPc, selectedFiles, dicomFolder, results, pending, impResult>>
    /\ UNCHANGED notImport

(* one pass whose fs.copyFile rejects: the source is not there *)
ImpCopyFileFails ==
    /\ impPc = "files"
    /\ impIdx \in DOMAIN selectedFiles
    /\ ~IsRegularFile(disk[selectedFiles[impIdx]])
    /\ results' = Append(results, Failure("Failed to copy"))
    /\ impIdx' = impIdx + 1
    /\ UNCHANGED <<disk, impPc, selectedFiles, dicomFolder, pending, impResult>>
    /\ UNCHANGED notImport

(* after the loop: return, or enter copyPngFilesFromFolder on the folder *)
ImpFilesDone ==
    /\ impPc = "files"
    /\ impIdx > Len(selectedFiles)
    /\ IF dicomFolder = << >>
       THEN /\ impResult' = results
            /\ impPc' = "returned"
            /\ UNCHANGED <<disk, pending>>
       ELSE /\ disk' = [disk EXCEPT ![dicomPath \o dicomFolder] = "dir"]
            /\ pending' = Readdir(disk, dicomFolder)
            /\ impPc' = "dicom"
            /\ UNCHANGED impResult
    /\ UNCHANGED <<selectedFiles, dicomFolder, impIdx, results>>
    /\ UNCHANGED notImport

(* one entry of copyPngFilesFromFolder: recurse, copy a .png, or skip *)
ImpDicomEntry ==
    /\ impPc = "dicom"
    /\ pending # << >>
    /\ LET sourcePath == Head(pending)
           destinationPath == dicomPath \o sourcePath
       IN  IF disk[sourcePath] = "dir"
           THEN /\ disk' = [disk EXCEPT ![destinationPath] = "dir"]
                /\ pending' = Readdir(disk, sourcePath) \o Tail(pending)
           ELSE IF EndsWithPng(basename(sourcePath))
           THEN /\ disk' = [disk EXCEPT ![destinationPath] = disk[sourcePath]]
                /\ pending' = Tail(pending)
           ELSE /\ pending' = Tail(pending)
                /\ UNCHANGED disk
    /\ UNCHANGED <<impPc, selectedFiles, dicomFolder, impIdx, results, impResult>>
    /\ UNCHANGED notImport

(* an fs.mkdir, fs.readdir or fs.copyFile of the folder copy rejects *)
ImpDicomFails ==
    /\ impPc = "dicom"
    /\ pending # << >>
    /\ impResult' = Append(results, Failure("Failed to copy DICOM folder"))
    /\ results' = impResult'
    /\ impPc' = "returned"
    /\ UNCHANGED <<disk, selectedFiles, dicomFolder, impIdx, pending>>
    /\ UNCHANGED notImport

(* the folder copy is through: its entry is pushed and results returned *)
ImpDicomDone ==
    /\ impPc = "dicom"
    /\ pending = << >>
    /\ impResult' = Append(results, Success(dicomPath \o dicomFolder))
    /\ results' = impResult'
    /\ impPc' = "returned"
    /\ UNCHANGED <<disk, selectedFiles, dicomFolder, impIdx, pending>>
    /\ UNCHANGED notImport

ImportNext ==
    \/ ImpMkdir
    \/ ImpMkdirFails
    \/ ImpCopyFile
    \/ ImpCopyFileFails
    \/ ImpFilesDone
    \/ ImpDicomEntry
    \/ ImpDicomFails
    \/ ImpDicomDone

ImportIdle ==
    /\ impPc = "idle"
    /\ selectedFiles = << >>
    /\ dicomFolder = << >>
    /\ disk = << >>
    /\ impIdx = 1
    /\ results = << >>
    /\ pending = << >>
    /\ impResult = << >>

----------------------------------------------------------------------------
(* import-to-unity of the variant that copies each file into the folder of *)
(* a button; it runs on the variables of import-to-unity                   *)

ButtonFolderName(buttonNum) ==
    CASE buttonNum = 1 -> "Button1"
      [] buttonNum = 2 -> "Button2"
      [] buttonNum = 3 -> "Button3"
      [] buttonNum = 4 -> "Button4"
      [] buttonNum = 5 -> "Button5"
      [] OTHER -> "ButtonN"

buttonFolderPath(buttonNum) == join(modelsPath, ButtonFolderName(buttonNum))

(* the file names a button folder can hold: the selectable ones and one *)
(* left by an earlier import                                            *)
FolderNames == { basename(p) : p \in ModelPaths } \cup {"old.obj"}

ButtonDiskPaths ==
    ModelPaths
        \cup {resourcesPath, modelsPath, dicomPath}
        \cup { buttonFolderPath(n) : n \in 1..(MaxArray + 1) }
        \cup { join(buttonFolderPath(n), name) : n \in 1..(MaxArray + 1), name \in FolderNames }

(* the files in the folder of a button *)
FolderFiles(fsys, buttonNum) ==
    { name \in FolderNames : IsRegularFile(fsys[join(buttonFolderPath(buttonNum), name)]) }

(* a forEach that assigns every entry of the array *)
FilesToProcessUnlimited == selectedFiles

(* selectedFiles.forEach: entry index goes to button index + 1, up to 4; *)
(* Object.entries lists the buttons in ascending order                   *)
FilesToProcess ==
    [buttonNum \in { n \in DOMAIN selectedFiles : n <= MaxButtons } |->
        selectedFiles[buttonNum]]

(* a selection is an array whose entries are paths or empty; d2/a.obj is *)
(* not on the disk                                                       *)
ButtonsInit ==
    /\ impPc = "start"
    /\ selectedFiles \in UNION { [1..k -> {<<"d1", "a.obj">>, <<"d2", "a.obj">>, << >>}] :
                                k \in 0..MaxArray }
    /\ dicomFolder = << >>
    /\ \E old \in SUBSET (1..MaxButtons) :
          disk = [p \in ButtonDiskPaths |->
                    IF p \in ModelPaths
                    THEN IF p[1] = "d1" THEN ModelContent(p) ELSE ""
                    ELSE IF \E n \in old : p = buttonFolderPath(n) THEN "dir"
                    ELSE IF \E n \in old : p = join(buttonFolderPath(n), "old.obj") THEN "y"
                    ELSE ""]
    /\ impIdx = 1
    /\ results = << >>
    /\ pending = << >>
    /\ impResult = << >>

(* if (!filePath) continue *)
BtnSkip ==
    /\ impPc = "files"
    /\ impIdx \in DOMAIN FilesToProcess
    /\ FilesToProcess[impIdx] = << >>
    /\ impIdx' = impIdx + 1
    /\ UNCHANGED <<disk, impPc, selectedFiles, dicomFolder, results, pending, impResult>>
    /\ UNCHANGED notImport

(* fs.rm(buttonFolderPath, { recursive: true, force: true }) in its own *)
(* try/catch: the folder and its files go, or the call rejects and the  *)
(* folder stays as it is                                                *)
BtnRm ==
    /\ impPc = "files"
    /\ impIdx \in DOMAIN FilesToProcess
    /\ FilesToProcess[impIdx] # << >>
    /\ \/ disk' = [p \in DOMAIN disk |->
                      IF p = buttonFolderPath(impIdx)
                            \/ \E name \in FolderNames : p = join(buttonFolderPath(impIdx), name)
                      THEN "" ELSE disk[p]]
       \/ /\ disk[buttonFolderPath(impIdx)] = "dir"
          /\ UNCHANGED disk
    /\ impPc' = "copy"
    /\ UNCHANGED <<selectedFiles, dicomFolder, impIdx, results, pending, impResult>>
    /\ UNCHANGED notImport

(* fs.mkdir(buttonFolderPath) and an fs.copyFile that succeeds *)
BtnCopyFile ==
    /\ impPc = "copy"
    /\ LET filePath == FilesToProcess[impIdx]
           destinationPath == join(buttonFolderPath(impIdx), basename(filePath))
       IN  /\ IsRegularFile(disk[filePath])
           /\ disk' = [disk EXCEPT ![buttonFolderPath(impIdx)] = "dir",
                                   ![destinationPath] = disk[filePath]]
           /\ results' = Append(results, Success(destinationPath))
    /\ impIdx' = impIdx + 1
    /\ impPc' = "files"
    /\ UNCHANGED <<selectedFiles, dicomFolder, pending, impResult>>
    /\ UNCHANGED notImport

(* fs.mkdir(buttonFolderPath) and an fs.copyFile that rejects *)
BtnCopyFileFails ==
    /\ impPc = "copy"
    /\ ~IsRegularFile(disk[FilesToProcess[impIdx]])
    /\ disk' = [disk EXCEPT ![buttonFolderPath(impIdx)] = "dir"]
    /\ results' = Append(results, Failure("Failed to copy"))
    /\ impIdx' = impIdx + 1
    /\ impPc' = "files"
    /\ UNCHANGED <<selectedFiles, dicomFolder, pending, impResult>>
    /\ UNCHANGED notImport

(* after the loop, no DICOM folder being selected: return results *)
BtnReturn ==
    /\ impPc = "files"
    /\ impIdx \notin DOMAIN FilesToProcess
    /\ impResult' = results
    /\ impPc' = "returned"
    /\ UNCHANGED <<disk, selectedFiles, dicomFolder, impIdx, results, pending>>
    /\ UNCHANGED notImport

ButtonsNext ==
    \/ ImpMkdir
    \/ ImpMkdirFails
    \/ BtnSkip
    \/ BtnRm
    \/ BtnCopyFile
    \/ BtnCopyFileFails
    \/ BtnReturn

----------------------------------------------------------------------------
(* build-unity *)

ExitCodes == {-1, 0, 1}

fallbackUnityPaths == 1..3

BuildPending == [settled |-> FALSE, success |-> FALSE, error |-> ""]

BuildFailure(error) == [settled |-> TRUE, success |-> FALSE, error |-> error]

BuildSuccess == [settled |-> TRUE, success |-> TRUE, error |-> ""]

BuildInit ==
    /\ buildDisk \in [project : BOOLEAN, buildScript : BOOLEAN, unityHub : BOOLEAN,
                       specificUnity : BOOLEAN,
                       fallback : [fallbackUnityPaths -> BOOLEAN],
                       buildUwp : BOOLEAN]
    /\ buildPc = "start"
    /\ checked = << >>
    /\ unityExecutable = ""
    /\ useUnityHub = FALSE
    /\ proc = [spawned |-> FALSE, error |-> FALSE, close |-> FALSE]
    /\ code = -1
    /\ buildExists = FALSE
    /\ resolveCalls = 0
    /\ buildResult = BuildPending

(* a resolve that replaces a value the promise already has *)
ResolveOverwrites(value) ==
    /\ buildResult' = value
    /\ resolveCalls' = resolveCalls + 1

(* resolve of the returned promise: only the first call settles it *)
Resolve(value) ==
    /\ buildResult' = IF buildResult.settled THEN buildResult ELSE value
    /\ resolveCalls' = resolveCalls + 1

(* await fs.access(unityProjectPath) *)
BuildAccessProject ==
    /\ buildPc = "start"
    /\ checked' = Append(checked, "project")
    /\ IF buildDisk.project
       THEN /\ buildPc' = "script"
            /\ UNCHANGED buildResult
       ELSE /\ buildPc' = "returned"
            /\ buildResult' = BuildFailure("Unity project path does not exist")
    /\ UNCHANGED <<buildDisk, unityExecutable, useUnityHub, proc, code, buildExists,
                   resolveCalls>>
    /\ UNCHANGED notBuild

(* await fs.access(buildScriptPath) *)
BuildAccessScript ==
    /\ buildPc = "script"
    /\ checked' = Append(checked, "buildScript")
    /\ IF buildDisk.buildScript
       THEN /\ buildPc' = "find"
            /\ UNCHANGED buildResult
       ELSE /\ buildPc' = "returned"
            /\ buildResult' = BuildFailure("BuildScript.cs not found")
    /\ UNCHANGED <<buildDisk, unityExecutable, useUnityHub, proc, code, buildExists,
                   resolveCalls>>
    /\ UNCHANGED notBuild

(* the search: Unity Hub with the specific version, the specific version, *)
(* then the first fallback path that can be accessed                       *)
BuildFindUnity ==
    /\ buildPc = "find"
    /\ checked' = Append(checked, "unityExecutable")
    /\ LET found == { i \in fallbackUnityPaths : buildDisk.fallback[i] }
           first == CHOOSE i \in found : \A j \in found : i <= j
       IN  /\ unityExecutable' =
                 IF buildDisk.unityHub /\ buildDisk.specificUnity THEN "unityHub"
                 ELSE IF buildDisk.specificUnity THEN "specificUnity"
                 ELSE IF found # {}
                 THEN IF first = 1 THEN "fallback1"
                      ELSE IF first = 2 THEN "fallback2" ELSE "fallback3"
                 ELSE ""
           /\ useUnityHub' = (buildDisk.unityHub /\ buildDisk.specificUnity)
    /\ buildPc' = "found"
    /\ UNCHANGED <<buildDisk, proc, code, buildExists, resolveCalls, buildResult>>
    /\ UNCHANGED notBuild

(* if (!unityExecutable) return { success: false, ... } *)
BuildNoExecutable ==
    /\ buildPc = "found"
    /\ unityExecutable = ""
    /\ buildPc' = "returned"
    /\ buildResult' = BuildFailure("Unity executable not found")
    /\ UNCHANGED <<buildDisk, checked, unityExecutable, useUnityHub, proc, code,
                   buildExists, resolveCalls>>
    /\ UNCHANGED notBuild

(* return new Promise(...): spawn and the registration of the listeners *)
BuildSpawn ==
    /\ buildPc = "found"
    /\ unityExecutable # ""
    /\ proc' = [proc EXCEPT !.spawned = TRUE]
    /\ buildPc' = "running"
    /\ UNCHANGED <<buildDisk, checked, unityExecutable, useUnityHub, code, buildExists,
                   resolveCalls, buildResult>>
    /\ UNCHANGED notBuild

(* unityProcess.on('error'): the process could not be started or killed *)
ProcessError ==
    /\ proc.spawned
    /\ ~proc.error
    /\ proc' = [proc EXCEPT !.error = TRUE]
    /\ Resolve(BuildFailure("Failed to start Unity build process"))
    /\ UNCHANGED <<buildDisk, buildPc, checked, unityExecutable, useUnityHub, code,
                   buildExists>>
    /\ UNCHANGED notBuild

(* the 'close' event arrives with an exit code; the process may have *)
(* written Build/UWP                                                 *)
ProcessClose ==
    /\ proc.spawned
    /\ ~proc.close
    /\ proc' = [proc EXCEPT !.close = TRUE]
    /\ code' \in ExitCodes
    /\ \E built \in BOOLEAN :
          buildDisk' = [buildDisk EXCEPT !.buildUwp = @ \/ built]
    /\ buildPc' = "closing"
    /\ UNCHANGED <<checked, unityExecutable, useUnityHub, buildExists, resolveCalls,
                   buildResult>>
    /\ UNCHANGED notBuild

(* the 'close' listener after its awaits: fs.access(buildPath), the log, *)
(* then resolve                                                          *)
CloseResolve ==
    /\ buildPc = "closing"
    /\ buildExists' = buildDisk.buildUwp
    /\ IF code = 0 /\ buildExists'
       THEN Resolve(BuildSuccess)
       ELSE Resolve(BuildFailure("Unity build failed with exit code"))
    /\ buildPc' = "closed"
    /\ UNCHANGED <<buildDisk, checked, unityExecutable, useUnityHub, proc, code>>
    /\ UNCHANGED notBuild

BuildNext ==
    \/ BuildAccessProject
    \/ BuildAccessScript
    \/ BuildFindUnity
    \/ BuildNoExecutable
    \/ BuildSpawn
    \/ ProcessError
    \/ ProcessClose
    \/ CloseResolve

BuildIdle ==
    /\ buildDisk = << >>
    /\ buildPc = "idle"
    /\ checked = << >>
    /\ unityExecutable = ""
    /\ useUnityHub = FALSE
    /\ proc = [spawned |-> FALSE, error |-> FALSE, close |-> FALSE]
    /\ code = -1
    /\ buildExists = FALSE
    /\ resolveCalls = 0
    /\ buildResult = BuildPending

----------------------------------------------------------------------------
(* class ConsoleLogger *)

Windows == 1..MaxWindows

Levels == {"log", "error", "warn", "info"}

(* the methods captured by the constructor *)
originalMethods == [level \in Levels |-> "native"]

NoConsoleCall == [level |-> "", originalCalls |-> 0, sent |-> 0, alive |-> FALSE]

LoggerInit ==
    /\ mainWindow = 0
    /\ destroyed = {}
    /\ console = originalMethods
    /\ lastOp = "constructor"
    /\ lastCall = NoConsoleCall

(* a send without the test of mainWindow and isDestroyed() *)
sendLogToRendererUnguarded(level) == IF level \in Levels THEN 1 ELSE 0

(* sendLogToRenderer: the number of 'console-log' messages it sends *)
sendLogToRenderer(level) ==
    IF mainWindow # 0 /\ mainWindow \notin destroyed /\ level \in Levels THEN 1 ELSE 0

(* setMainWindow(window), setupMainProcessLogging included *)
SetMainWindow ==
    /\ \E window \in Windows : mainWindow' = window
    /\ console' = [level \in Levels |-> "override"]
    /\ lastOp' = "setMainWindow"
    /\ UNCHANGED <<destroyed, lastCall>>
    /\ UNCHANGED notLog

(* console.log, console.error, console.warn or console.info is called *)
ConsoleCall ==
    /\ \E level \in Levels :
          lastCall' =
              IF console[level] = "override"
              THEN [level |-> level,
                    originalCalls |-> IF originalMethods[level] = "native" THEN 1 ELSE 0,
                    sent |-> sendLogToRenderer(level),
                    alive |-> mainWindow # 0 /\ mainWindow \notin destroyed]
              ELSE [level |-> level, originalCalls |-> 1, sent |-> 0,
                    alive |-> mainWindow # 0 /\ mainWindow \notin destroyed]
    /\ lastOp' = "call"
    /\ UNCHANGED <<mainWindow, destroyed, console>>
    /\ UNCHANGED notLog

(* a window is closed: isDestroyed() is true from now on *)
WindowClose ==
    /\ \E window \in Windows \ destroyed : destroyed' = destroyed \cup {window}
    /\ lastOp' = "close"
    /\ UNCHANGED <<mainWindow, console, lastCall>>
    /\ UNCHANGED notLog

(* cleanup() *)
Cleanup ==
    /\ console' = originalMethods
    /\ lastOp' = "cleanup"
    /\ UNCHANGED <<mainWindow, destroyed, lastCall>>
    /\ UNCHANGED notLog

LoggerNext ==
    \/ SetMainWindow
    \/ ConsoleCall
    \/ WindowClose
    \/ Cleanup

LoggerIdle ==
    /\ mainWindow = 0
    /\ destroyed = {}
    /\ console = << >>
    /\ lastOp = "idle"
    /\ lastCall = NoConsoleCall

----------------------------------------------------------------------------
(* function App: the wizard of the renderer *)

steps == <<"Select Models", "Select Project", "Review & Import">>

AppInit ==
    /\ api \in BOOLEAN
    /\ appSelectedFiles = << >>
    /\ appDicomFolder = ""
    /\ appUnityProjectPath = ""
    /\ status = ""
    /\ isExecuting = FALSE
    /\ currentStep = 0
    /\ handleImportPc = "idle"
    /\ invoked = << >>

(* handleSelectStl: a non-empty selection replaces selectedFiles and *)
(* clears the status                                                 *)
HandleSelectStl ==
    /\ currentStep = 0
    /\ \E k \in 1..MaxSelected : appSelectedFiles' = [i \in 1..k |-> "model"]
    /\ status' = ""
    /\ UNCHANGED <<api, appDicomFolder, appUnityProjectPath, isExecuting, currentStep,
                   handleImportPc, invoked>>
    /\ UNCHANGED notApp

(* handleSelectDicomFolder *)
HandleSelectDicomFolder ==
    /\ currentStep = 0
    /\ appDicomFolder' = "scan"
    /\ status' = ""
    /\ UNCHANGED <<api, appSelectedFiles, appUnityProjectPath, isExecuting, currentStep,
                   handleImportPc, invoked>>
    /\ UNCHANGED notApp

(* handleSelectUnityProject *)
HandleSelectUnityProject ==
    /\ currentStep = 1
    /\ appUnityProjectPath' = "project"
    /\ status' = ""
    /\ UNCHANGED <<api, appSelectedFiles, appDicomFolder, isExecuting, currentStep,
                   handleImportPc, invoked>>
    /\ UNCHANGED notApp

(* goToNextStep *)
GoToNextStep ==
    /\ currentStep < Len(steps) - 1
    /\ currentStep' = currentStep + 1
    /\ UNCHANGED <<api, appSelectedFiles, appDicomFolder, appUnityProjectPath, status,
                   isExecuting, handleImportPc, invoked>>
    /\ UNCHANGED notApp

(* goToPreviousStep; the Back button of the review step is disabled *)
(* while isExecuting                                                *)
GoToPreviousStep ==
    /\ currentStep > 0
    /\ ~(currentStep = 2 /\ isExecuting)
    /\ currentStep' = currentStep - 1
    /\ UNCHANGED <<api, appSelectedFiles, appDicomFolder, appUnityProjectPath, status,
                   isExecuting, handleImportPc, invoked>>
    /\ UNCHANGED notApp

(* the Import button, disabled while isExecuting, calls handleImport: its *)
(* three early returns, or clearMessages and setIsExecuting(true)         *)
HandleImport ==
    /\ currentStep = 2
    /\ ~isExecuting
    /\ Len(invoked) < MaxInvoked
    /\ IF ~api
       THEN UNCHANGED <<status, isExecuting, handleImportPc>>
       ELSE IF Len(appSelectedFiles) = 0 /\ appDicomFolder = ""
       THEN /\ status' = "Please select files or DICOM folder before importing."
            /\ UNCHANGED <<isExecuting, handleImportPc>>
       ELSE IF appUnityProjectPath = ""
       THEN /\ status' = "Please select Unity project directory before importing."
            /\ UNCHANGED <<isExecuting, handleImportPc>>
       ELSE /\ status' = ""
            /\ isExecuting' = TRUE
            /\ handleImportPc' = "try"
    /\ UNCHANGED <<api, appSelectedFiles, appDicomFolder, appUnityProjectPath,
                   currentStep, invoked>>
    /\ UNCHANGED notApp

(* window.api.importToUnity(selectedFiles, selectedDicomFolder, unityProjectPath) *)
ImportToUnityInvoke ==
    /\ handleImportPc = "try"
    /\ invoked' = Append(invoked, [selectedFiles |-> appSelectedFiles,
                                   selectedDicomFolder |-> appDicomFolder,
                                   unityProjectPath |-> appUnityProjectPath])
    /\ handleImportPc' = "outstanding"
    /\ UNCHANGED <<api, appSelectedFiles, appDicomFolder, appUnityProjectPath, status,
                   isExecuting, currentStep>>
    /\ UNCHANGED notApp

(* the call resolves: the status counts the successful results *)
ImportToUnityResolves ==
    /\ handleImportPc = "outstanding"
    /\ status' = "Imported"
    /\ handleImportPc' = "finally"
    /\ UNCHANGED <<api, appSelectedFiles, appDicomFolder, appUnityProjectPath,
                   isExecuting, currentStep, invoked>>
    /\ UNCHANGED notApp

(* the call throws: the catch block sets the status *)
ImportToUnityThrows ==
    /\ handleImportPc = "outstanding"
    /\ status' = "An unexpected error occurred while importing the files."
    /\ handleImportPc' = "finally"
    /\ UNCHANGED <<api, appSelectedFiles, appDicomFolder, appUnityProjectPath,
                   isExecuting, currentStep, invoked>>
    /\ UNCHANGED notApp

(* a handler without the finally block *)
HandleImportEnds ==
    /\ handleImportPc = "finally"
    /\ handleImportPc' = "idle"
    /\ UNCHANGED <<api, appSelectedFiles, appDicomFolder, appUnityProjectPath, status,
                   isExecuting, currentStep, invoked>>
    /\ UNCHANGED notApp

(* finally { setIsExecuting(false) } *)
HandleImportFinally ==
    /\ handleImportPc = "finally"
    /\ isExecuting' = FALSE
    /\ handleImportPc' = "idle"
    /\ UNCHANGED <<api, appSelectedFiles, appDicomFolder, appUnityProjectPath, status,
                   currentStep, invoked>>
    /\ UNCHANGED notApp

AppNext ==
    \/ HandleSelectStl
    \/ HandleSelectDicomFolder
    \/ HandleSelectUnityProject
    \/ GoToNextStep
    \/ GoToPreviousStep
    \/ HandleImport
    \/ ImportToUnityInvoke
    \/ ImportToUnityResolves
    \/ ImportToUnityThrows
    \/ HandleImportFinally

AppIdle ==
    /\ api = FALSE
    /\ appSelectedFiles = << >>
    /\ appDicomFolder = ""
    /\ appUnityProjectPath = ""
    /\ status = ""
    /\ isExecuting = FALSE
    /\ currentStep = 0
    /\ handleImportPc = "unmounted"
    /\ invoked = << >>

----------------------------------------------------------------------------
(* Specifications: one converter runs, the others are not called *)

StlIdle ==
    /\ stlPc = "idle"
    /\ stlFile = [solid |-> FALSE, faces |-> 0, records |-> << >>]
    /\ geometry = NoGeometry
    /\ objContent = << >>
    /\ objFile = << >>
    /\ stlResult = "pending"

DcmIdleButScan ==
    /\ dcmPc = "idle"
    /\ dicomFile = [parses |-> FALSE, hasPixelData |-> FALSE, rowsAttr |-> Absent,
                    columnsAttr |-> Absent, bitsAttr |-> Absent, bytes |-> << >>]
    /\ rows = 0
    /\ columns = 0
    /\ bitsAllocated = 0
    /\ pixelData = << >>
    /\ png = [width |-> 0, height |-> 0]
    /\ pngFile = << >>
    /\ dcmResult = "pending"
    /\ dcmError = ""
    /\ convertedFiles = 0

DcmIdle ==
    /\ DcmIdleButScan
    /\ minValue = Infinity
    /\ maxValue = 0 - Infinity

RsIdle ==
    /\ rsPc = "idle"
    /\ rawValue = 0
    /\ pixelValue = << >>
    /\ prevRaw = << >>
    /\ prevPixel = << >>

UnityIdle == ImportIdle /\ BuildIdle /\ LoggerIdle /\ AppIdle

ConvertersIdle == StlIdle /\ DcmIdle /\ RsIdle /\ HandlersIdle

InitStl == StlInit /\ DcmIdle /\ RsIdle /\ HandlersIdle /\ UnityIdle

InitDicom == DcmInit /\ StlIdle /\ RsIdle /\ HandlersIdle /\ UnityIdle

InitRescale == RsInit /\ DcmIdleButScan /\ StlIdle /\ HandlersIdle /\ UnityIdle

InitHandlers == HandlersInit /\ StlIdle /\ DcmIdle /\ RsIdle /\ UnityIdle

InitOverlap == OverlapInit /\ StlIdle /\ DcmIdle /\ RsIdle /\ UnityIdle

(* one call of either converter, with a file system that can fail *)
InitConvert ==
    /\ \/ StlInit /\ DcmIdle
       \/ DcmInit /\ StlIdle
    /\ RsIdle
    /\ HandlersIdle
    /\ UnityIdle

InitImport == ImportInit /\ ConvertersIdle /\ BuildIdle /\ LoggerIdle /\ AppIdle

InitButtons == ButtonsInit /\ ConvertersIdle /\ BuildIdle /\ LoggerIdle /\ AppIdle

InitBuild == BuildInit /\ ConvertersIdle /\ ImportIdle /\ LoggerIdle /\ AppIdle

InitLogger == LoggerInit /\ ConvertersIdle /\ ImportIdle /\ BuildIdle /\ AppIdle

InitApp == AppInit /\ ConvertersIdle /\ ImportIdle /\ BuildIdle /\ LoggerIdle

ConvertNext ==
    \/ StlNext
    \/ DcmNext
    \/ FsFails

SpecStl == InitStl /\ [][StlNext]_vars

SpecDicom == InitDicom /\ [][DcmNext]_vars

SpecRescale == InitRescale /\ [][RsNext]_vars

SpecHandlers == InitHandlers /\ [][HandlersNext]_vars

SpecConvert == InitConvert /\ [][ConvertNext]_vars

SpecOverlap == InitOverlap /\ [][OverlapNext]_vars

SpecImport == InitImport /\ [][ImportNext]_vars

SpecApp == InitApp /\ [][AppNext]_vars

SpecLogger == InitLogger /\ [][LoggerNext]_vars

SpecButtons == InitButtons /\ [][ButtonsNext]_vars

(* the spawned process ends or fails to start, and the listeners run *)
SpecBuild == InitBuild /\ [][BuildNext]_vars /\ WF_vars(BuildNext)

----------------------------------------------------------------------------
(* Properties of convertStlToObj *)

(* the file follows the binary layout: exactly the declared number of records *)
WellFormedStl == stlFile.faces = Len(stlFile.records)

StlConverted == stlPc = "done" /\ WellFormedStl

IsKind(kind, line) == line[1] = kind

IsV(line) == IsKind("v", line)

IsVn(line) == IsKind("vn", line)

IsF(line) == IsKind("f", line)

WrittenLines == objFile[1]

VLines == SelectSeq(WrittenLines, IsV)

VnLines == SelectSeq(WrittenLines, IsVn)

FLines == SelectSeq(WrittenLines, IsF)

(* the vertex of triangle t (1-based) at corner c (1-based) *)
Corner(t, c) == stlFile.records[t].v[c]

(* C1: a converted binary STL with N triangles has exactly 3N `v` lines and  *)
(* exactly N `f` lines, and the j-th `v` line is corner ((j-1) mod 3)+1 of   *)
(* triangle ((j-1) div 3)+1: every corner has its own line, so equal         *)
(* positions of different triangles are never merged.                        *)
C1_VertexAndFaceCount ==
    StlConverted =>
        /\ Len(VLines) = 3 * stlFile.faces
        /\ Len(FLines) = stlFile.faces
        /\ \A j \in 1..Len(VLines) :
              LET p == Corner(((j - 1) \div 3) + 1, ((j - 1) % 3) + 1)
              IN  VLines[j] = <<"v", p[1], p[2], p[3]>>

(* two triangles share a position and it appears on two `v` lines *)
C1_Witness ==
    /\ StlConverted
    /\ stlFile.faces = 2
    /\ Corner(1, 1) = Corner(2, 1)
    /\ Len(VLines) = 6
    /\ VLines[1] = VLines[4]

(* C2: the face line of triangle i (0-based) references exactly the 1-based  *)
(* position indices 3i+1, 3i+2, 3i+3.                                        *)
C2_FaceIndices ==
    StlConverted =>
        /\ Len(FLines) = stlFile.faces
        /\ \A i \in 0..(stlFile.faces - 1) :
              <<FLines[i + 1][2][1], FLines[i + 1][3][1], FLines[i + 1][4][1]>>
                  = <<3 * i + 1, 3 * i + 2, 3 * i + 3>>

C2_Witness ==
    /\ StlConverted
    /\ stlFile.faces = 2
    /\ FLines[2][2][1] = 4
    /\ FLines[2][4][1] = 6

ZeroVector == <<0, 0, 0>>

AllNormalsNonZero == \A t \in 1..stlFile.faces : stlFile.records[t].n # ZeroVector

AllNormalsZero == \A t \in 1..stlFile.faces : stlFile.records[t].n = ZeroVector

(* an index reference of a face line in `position//normal` form *)
IsPaired(ref) == Len(ref) = 2

AllFacesPaired == \A k \in 1..Len(FLines) : \A c \in 2..4 : IsPaired(FLines[k][c])

AllFacesBare == \A k \in 1..Len(FLines) : \A c \in 2..4 : Len(FLines[k][c]) = 1

----------------------------------------------------------------------------
(* Properties of convertDicomToPng *)

DicomConverted == dcmPc \in {"done", "returned"}

Gray(v) == <<v, v, v, 255>>

ValueRange == maxValue - minValue

(* the rescaled value of the sample at index i *)
Rescaled(i) == PixelValue(RawValue(pixelData, i), minValue, ValueRange)

(* C4: the rescaled value of sample y*columns+x is the pixel at column x,   *)
(* row y of a raster of width columns and height rows, for every rows and   *)
(* columns.                                                                 *)
C4_RowMajorPlacement ==
    DicomConverted =>
        /\ pngFile[1].width = columns
        /\ pngFile[1].height = rows
        /\ \A y \in 0..(rows - 1) : \A x \in 0..(columns - 1) :
              PngData(y * columns + x) = Gray(Rescaled(y * columns + x))

(* C5: every one of the rows*columns pixels of the written raster has       *)
(* R = G = B and alpha = 255; none is left unwritten.                       *)
C5_GrayOpaqueEverywhere ==
    DicomConverted =>
        \A p \in 0..(rows * columns - 1) :
            /\ PngData(p)[1] = PngData(p)[2]
            /\ PngData(p)[2] = PngData(p)[3]
            /\ PngData(p)[4] = 255

(* the element holds exactly rows*columns samples, all equal *)
FlatImage ==
    /\ Len(pixelData) = rows * columns
    /\ \A i \in 1..Len(pixelData) : pixelData[i] = pixelData[1]

(* C6: when all samples equal a constant k, every output pixel is           *)
(* (128, 128, 128, 255).                                                    *)
C6_FlatImageMidGray ==
    (DicomConverted /\ FlatImage) =>
        \A p \in 0..(rows * columns - 1) : PngData(p) = Gray(128)

(* the samples of the element that the raster loop reads *)
RasterizedSamples ==
    { pixelData[i] : i \in { j \in 1..Len(pixelData) : j <= rows * columns } }

Scanned == dcmPc \in {"scanned", "rasterized", "done", "returned"}

(* C8: minValue and maxValue are the minimum and the maximum of the samples *)
(* that are rasterized, whatever the number of samples of the element: no   *)
(* value the raster loop rescales lies outside [minValue, maxValue] and no  *)
(* sample it does not read moves them.                                      *)
C8_MinMaxOverRasterized ==
    (Scanned /\ RasterizedSamples # {}) =>
        /\ minValue \in RasterizedSamples
        /\ maxValue \in RasterizedSamples
        /\ \A s \in RasterizedSamples : minValue <= s /\ s <= maxValue
        /\ \A i \in 0..(rows * columns - 1) :
              /\ minValue <= RawValue(pixelData, i)
              /\ RawValue(pixelData, i) <= maxValue

HasPixels == dicomFile.parses /\ dicomFile.hasPixelData

Parsed == dcmPc \in {"parsed", "scanned", "rasterized", "done", "returned"}

(* C9: a data set with pixel data that omits rows, columns or bitsAllocated *)
(* is never rejected; an omitted dimension is 512 in the raster and in the  *)
(* written file, an omitted bitsAllocated reads the element as 16-bit words.*)
C9_DefaultGeometry ==
    HasPixels =>
        /\ dcmPc \notin {"thrown", "failed", "caught"}
        /\ dcmResult # "error"
        /\ Parsed =>
              /\ dicomFile.rowsAttr = Absent => (rows = 512 /\ png.height = 512)
              /\ dicomFile.columnsAttr = Absent => (columns = 512 /\ png.width = 512)
              /\ dicomFile.bitsAttr = Absent =>
                    /\ bitsAllocated = 16
                    /\ Len(pixelData) = Len(dicomFile.bytes) \div 2
                    /\ \A i \in 1..Len(pixelData) :
                          pixelData[i] = dicomFile.bytes[2 * i - 1]
                                            + 256 * dicomFile.bytes[2 * i]
        /\ DicomConverted =>
              /\ Len(pngFile) = 1
              /\ dicomFile.rowsAttr = Absent => pngFile[1].height = 512
              /\ dicomFile.columnsAttr = Absent => pngFile[1].width = 512

(* nothing but the pixel data is present: a 512 x 512 file is written, its  *)
(* last pixel is stored                                                     *)
C9_Witness ==
    /\ dcmPc = "returned"
    /\ dicomFile.rowsAttr = Absent
    /\ dicomFile.columnsAttr = Absent
    /\ dicomFile.bitsAttr = Absent
    /\ Len(dicomFile.bytes) = 1
    /\ pngFile = <<[width |-> 512, height |-> 512]>>
    /\ PngData(512 * 512 - 1) = Gray(128)
    /\ dcmResult = "path"

NoPixelData == dicomFile.parses /\ ~dicomFile.hasPixelData

(* C10: a data set that parses but has no pixel-data element fails with the *)
(* missing-pixel-data error: the conversion never gets past the check, no   *)
(* PNG file is written and the caller does not count it as converted.       *)
C10_MissingPixelData ==
    NoPixelData =>
        /\ dcmPc \in {"start", "read", "thrown", "failed", "caught"}
        /\ pngFile = << >>
        /\ convertedFiles = 0
        /\ dcmResult # "path"
        /\ dcmPc \in {"thrown", "failed", "caught"} =>
              dcmError = "No pixel data found in DICOM file"
        /\ dcmPc \in {"failed", "caught"} => dcmResult = "error"

C10_Witness ==
    /\ NoPixelData
    /\ dcmPc = "caught"
    /\ dcmResult = "error"
    /\ dcmError = "No pixel data found in DICOM file"
    /\ pngFile = << >>

----------------------------------------------------------------------------
(* Properties of the rescale *)

(* v is num/den rounded to the nearest integer (halves up), cut to 0..255 *)
IsClampedRound(v, num, den) ==
    /\ v \in 0..255
    /\ v > 0 => 2 * v * den - den <= 2 * num
    /\ v < 255 => 2 * num < 2 * v * den + den

(* C7: when maxValue > minValue a sample s maps to                          *)
(* round(((s - minValue) / (maxValue - minValue)) * 255) clamped to 0..255; *)
(* with minValue 0 and maxValue 1000, 0 maps to 0, 1000 to 255 and 500 to   *)
(* 128 (+/-1); a greater sample never maps to a smaller value.              *)
C7_LinearRescale ==
    (rsPc = "scaled" /\ maxValue > minValue) =>
        /\ IsClampedRound(pixelValue[1], (rawValue - minValue) * 255, maxValue - minValue)
        /\ (minValue = 0 /\ maxValue = 1000) =>
              /\ rawValue = 0 => pixelValue[1] = 0
              /\ rawValue = 1000 => pixelValue[1] = 255
              /\ rawValue = 500 => pixelValue[1] \in 127..129
        /\ (Len(prevRaw) = 1 /\ prevRaw[1] <= rawValue) => prevPixel[1] <= pixelValue[1]

C7_Witness ==
    /\ rsPc = "scaled"
    /\ minValue = 0
    /\ maxValue = 1000
    /\ prevRaw = <<0>>
    /\ prevPixel = <<0>>
    /\ rawValue = 500
    /\ pixelValue = <<128>>

----------------------------------------------------------------------------
(* Truncated and empty binary STL files *)

(* fewer records are present than the count field declares *)
Truncated == stlFile.faces > Len(stlFile.records)

(* C11: a binary STL with fewer records than its count field declares makes  *)
(* convertStlToObj fail: the conversion never gets past parsing, it never    *)
(* returns a path, and no OBJ file is written.                               *)
C11_TruncatedFails ==
    Truncated =>
        /\ stlPc \in {"start", "read", "failed"}
        /\ stlResult # "path"
        /\ objFile = << >>

(* C12: a binary STL whose count field is 0 never fails to convert, and the  *)
(* file written for it holds the header comment line and nothing else: no    *)
(* `v`, `vn` or `f` line.                                                    *)
C12_ZeroTriangles ==
    stlFile.faces = 0 =>
        /\ stlPc # "failed"
        /\ stlResult # "error"
        /\ stlPc = "done" =>
              /\ stlResult = "path"
              /\ objFile = <<objContent>>
              /\ WrittenLines = <<HeaderLine>>
              /\ Len(VLines) = 0
              /\ Len(VnLines) = 0
              /\ Len(FLines) = 0

(* an 84-byte file with count 0 has been converted *)
C12_Witness ==
    /\ stlFile.faces = 0
    /\ stlFile.records = << >>
    /\ ~stlFile.solid
    /\ stlPc = "done"
    /\ stlResult = "path"
    /\ objFile = <<<<HeaderLine>>>>

----------------------------------------------------------------------------
(* Properties of the select-model-files and select-dicom-folder handlers *)

ObjSibling(p) == [p EXCEPT !.ext = ".obj"]

PngSibling(p) == [p EXCEPT !.ext = ".png"]

(* the name ends in .stl, in any letter case, and is more than the extension *)
IsStlPath(p) == p.stem # "" /\ p.ext \in {".stl", ".STL"}

IsDcmPath(p) == p.ext \in {".dcm", ".DCM"}

(* C13: select-model-files never rejects, and its list holds one entry per   *)
(* selected path, in selection order: entry i is the .obj sibling when path  *)
(* i is a .stl whose conversion succeeded, path i itself when its conversion *)
(* failed, and path i itself when it is not a .stl; every .stl is converted, *)
(* nothing else is, and the list returned is complete.                       *)
C13_OneEntryPerSelectedPath ==
    handler = "select-model-files" =>
        /\ handlerResult.kind \in {"pending", "null", "files"}
        /\ handlerResult.kind = "null" => filePaths = << >>
        /\ Len(processedFiles) = idx - 1
        /\ Len(iterations) = idx - 1
        /\ idx - 1 <= Len(filePaths)
        /\ \A i \in DOMAIN processedFiles :
              LET p == filePaths[i]
                  outcome == iterations[i].outcome
              IN  /\ iterations[i].path = p
                  /\ outcome = "path" => processedFiles[i] = ObjSibling(p)
                  /\ outcome = "error" => processedFiles[i] = p
                  /\ outcome = "none" => processedFiles[i] = p
                  /\ IsStlPath(p) <=> outcome \in {"path", "error"}
        /\ handlerResult.kind = "files" =>
              /\ filePaths = entries
              /\ handlerResult.files = processedFiles
              /\ Len(handlerResult.files) = Len(entries)

(* a.STL converted, b.stl failed: the list is a.obj, b.stl *)
C13_Witness ==
    /\ handler = "select-model-files"
    /\ entries = <<[stem |-> "a", ext |-> ".STL"], [stem |-> "b", ext |-> ".stl"]>>
    /\ Len(iterations) = 2
    /\ iterations[1].outcome = "path"
    /\ iterations[2].outcome = "error"
    /\ handlerResult = [kind |-> "files",
                        files |-> <<[stem |-> "a", ext |-> ".obj"],
                                    [stem |-> "b", ext |-> ".stl"]>>]

(* the .dcm files of the folder, in the order fs.readdir lists them *)
DcmFilesOf(listing) == SelectSeq(listing, LAMBDA p : fs[p].isFile /\ IsDcmPath(p))

(* C14: after a folder was chosen select-dicom-folder settles to the folder  *)
(* path only, never to null or a rejection; once the folder is listed the    *)
(* loop calls convertDicomToPng on its .dcm files one after the other, a     *)
(* failed call is followed by the call on the next file, and the handler     *)
(* returns only when every .dcm file has had exactly one call.               *)
C14_Step ==
    handler = "select-dicom-folder" =>
        /\ handlerResult'.kind \in {"pending", "null", "selectedFolder"}
        /\ hPc # "dialog" => handlerResult'.kind \in {"pending", "selectedFolder"}
        /\ hPc' = "returned" => handlerResult'.kind # "pending"
        /\ hPc' \in {"loop", "await"} =>
              /\ filePaths' = DcmFilesOf(entries)
              /\ Len(iterations') = idx' - 1
              /\ \A i \in DOMAIN iterations' : iterations'[i].path = filePaths'[i]
        /\ (hPc = "await" /\ conv[1].pc = "failed" /\ hPc' = "loop") =>
              /\ idx' = idx + 1
              /\ iterations'[idx].outcome = "error"
        /\ (hPc = "loop" /\ hPc' = "await") =>
              /\ conv'[1] = NewCall("dcm", filePaths[idx])
              /\ idx = Len(iterations) + 1
        /\ (hPc = "loop" /\ hPc' = "returned") =>
              /\ Len(iterations) = Len(filePaths)
              /\ \A i \in DOMAIN filePaths : iterations[i].path = filePaths[i]
              /\ handlerResult'.kind = "selectedFolder"

C14_EveryDicomFileConverted == [][C14_Step]_vars

(* the first of two .dcm files failed, the second was converted, and the    *)
(* folder path was returned                                                 *)
C14_Witness ==
    /\ handler = "select-dicom-folder"
    /\ hPc = "returned"
    /\ Len(filePaths) = 2
    /\ Len(iterations) = 2
    /\ iterations[1].outcome = "error"
    /\ iterations[2].outcome = "path"
    /\ processedFiles = <<PngSibling(filePaths[2])>>
    /\ handlerResult.kind = "selectedFolder"

----------------------------------------------------------------------------
(* Bounds and bit widths of the pixel data *)

(* the raster loop has run: pixelData[y * columns + x] was read for every   *)
(* y < rows and x < columns                                                *)
SamplesRead == dcmPc \in {"rasterized", "done", "returned"}

(* C15: when the raster loop has read its samples, every index it used,     *)
(* 0 .. rows * columns - 1, lies inside the typed array over the pixel-data *)
(* element (element length / sample width entries); a data set with fewer   *)
(* samples never gets that far.                                             *)
C15_SampleIndicesInside ==
    SamplesRead => rows * columns - 1 < Len(pixelData)

(* bitsAllocated is present and is neither 8 nor 16 *)
UnexpectedBitWidth ==
    /\ dicomFile.parses
    /\ dicomFile.hasPixelData
    /\ dicomFile.bitsAttr # Absent
    /\ dicomFile.bitsAttr[1] \notin {8, 16}

(* C16: a data set whose bitsAllocated is neither 8 nor 16 is never         *)
(* rasterized: no typed array and no PNG object are built from it, no file  *)
(* is written and no path is returned.                                      *)
C16_UnexpectedBitWidthFails ==
    UnexpectedBitWidth =>
        /\ dcmPc \in {"start", "read", "thrown", "failed", "caught"}
        /\ pngFile = << >>
        /\ dcmResult # "path"

----------------------------------------------------------------------------
(* Outcomes and order of the steps of one conversion *)

(* the converters as functions agree with the converters step by step *)
ObjTextAgrees ==
    stlPc \in {"faces", "done"} => objContent = ObjText(stlFile)

PngImageAgrees ==
    (Rasterized /\ rows <= MaxDim /\ columns <= MaxDim) =>
        /\ PngImage(dicomFile).width = png.width
        /\ PngImage(dicomFile).height = png.height
        /\ \A p \in 0..(PixelCount - 1) : PngData(p) = PngImage(dicomFile).data[p]

(* C17: a conversion that has ended has either succeeded, with the complete *)
(* output in the output file and the path returned, or failed, with an      *)
(* error and the output file neither created nor modified.                  *)
C17_DefiniteOutcome ==
    /\ stlPc = "done" => (stlResult = "path" /\ objFile = <<objContent>>)
    /\ stlPc = "failed" => (stlResult = "error" /\ objFile = << >>)
    /\ dcmPc \in {"done", "returned"} => (dcmResult = "path" /\ pngFile = <<png>>)
    /\ dcmPc \in {"failed", "caught"} => (dcmResult = "error" /\ pngFile = << >>)

(* C19: in a DICOM conversion, once the raster loop has rescaled and stored *)
(* pixels, or anything was written to the PNG file, minValue and maxValue   *)
(* hold the result of the scan over all samples; in an STL conversion, as   *)
(* long as parsing has not completed no output line exists and no file is   *)
(* written, and every line and file comes after the complete geometry.      *)
C19_ScanAndParseFirst ==
    /\ (SamplesRead \/ pngFile # << >>) =>
          /\ dcmPc \notin {"start", "read", "parsed"}
          /\ minValue = FullScan(pixelData)[1]
          /\ maxValue = FullScan(pixelData)[2]
    /\ stlPc \in {"start", "read"} => (objContent = << >> /\ objFile = << >>)
    /\ (objContent # << >> \/ objFile # << >>) =>
          /\ geometry.ok
          /\ geometry = parse(stlFile)

(* pixels of a two-sample image were rescaled with the scan result in place *)
C19_Witness ==
    /\ dcmPc = "rasterized"
    /\ pixelData = <<0, 255>>
    /\ minValue = 0
    /\ maxValue = 255
    /\ PngData(0) = <<0, 0, 0, 255>>
    /\ pngFile = << >>

----------------------------------------------------------------------------
(* Where a conversion writes *)

(* the path with its extension swapped, whatever the letter case of .stl / .dcm *)
Sibling(call) ==
    IF call.kind = "stl" THEN ObjSibling(call.path) ELSE PngSibling(call.path)

(* C18: in every step of a handler, the only path whose content changes is  *)
(* the sibling (.obj for .stl, .png for .dcm, any letter case) of the path   *)
(* of the running conversion; the source file keeps its content; and every  *)
(* path a handler passes to a converter ends in the converter's extension,   *)
(* so that its output path is another path.                                 *)
C18_Step ==
    /\ \A p \in Paths :
          fs'[p] # fs[p] =>
              /\ conv[1].kind \in {"stl", "dcm"}
              /\ p = Sibling(conv[1])
              /\ p # conv[1].path
    /\ conv[1].kind # "none" => fs'[conv[1].path] = fs[conv[1].path]
    /\ conv'[1].kind = "stl" => conv'[1].path.ext \in {".stl", ".STL"}
    /\ conv'[1].kind = "dcm" => conv'[1].path.ext \in {".dcm", ".DCM"}
    /\ conv'[1].kind # "none" => Sibling(conv'[1]) # conv'[1].path
    /\ conv'[1].pc \in {"computed", "done"} => conv'[1].outPath = Sibling(conv'[1])

C18_WritesOnlySibling == [][C18_Step]_vars

(* a.STL was converted: a.obj holds the output and a.STL still holds the STL *)
C18_Witness ==
    /\ conv[1].kind = "stl"
    /\ conv[1].pc = "done"
    /\ conv[1].path = [stem |-> "a", ext |-> ".STL"]
    /\ conv[1].outPath = [stem |-> "a", ext |-> ".obj"]
    /\ fs[[stem |-> "a", ext |-> ".obj"]] = conv[1].out
    /\ fs[[stem |-> "a", ext |-> ".STL"]] = conv[1].data
    /\ Len(conv[1].data.stl) = 1

----------------------------------------------------------------------------
(* Isolation of overlapping conversions *)

(* what the call of a converter on this content does when it runs alone *)
AloneThrows(kind, content) ==
    IF kind = "stl" THEN ~ParsedStl(content).ok ELSE DicomThrows(content)

AloneOutput(kind, content) ==
    IF kind = "stl"
    THEN ObjContent(ObjText(content.stl[1]))
    ELSE PngContent(PngImage(content.dcm[1]))

(* the file at the path of a call is the complete source it started from *)
SourceIntact(call) ==
    /\ fs[call.path] \in SourcesOf(call)
    /\ fs[call.path].complete

----------------------------------------------------------------------------
(* Output paths within one handler call *)

(* the path the conversion of iteration i wrote *)
WrittenPath(i) ==
    IF handler = "select-model-files"
    THEN ObjSibling(iterations[i].path)
    ELSE PngSibling(iterations[i].path)

(* C21: within one select-model-files or select-dicom-folder call, no path  *)
(* written by a successful conversion is one of the selected input paths,   *)
(* and no two successful conversions wrote the same path.                   *)
C21_OutputsDisjoint ==
    \A i \in DOMAIN iterations :
        iterations[i].outcome = "path" =>
            /\ \A j \in DOMAIN filePaths : filePaths[j] # WrittenPath(i)
            /\ \A j \in DOMAIN iterations :
                  (j # i /\ iterations[j].outcome = "path") =>
                      WrittenPath(j) # WrittenPath(i)

----------------------------------------------------------------------------
(* Index ranges of the face lines *)

C23_SuccessMeansCopied ==
    (impPc = "returned" /\ disk[modelsPath] = "dir") =>
        \A i \in DOMAIN selectedFiles :
            impResult[i].success =>
                disk[impResult[i].destinationPath] = disk[selectedFiles[i]]

(* C24: import-to-unity never rejects.  With the directories created it     *)
(* returns one entry per selected file in selection order, plus one for the *)
(* DICOM folder if one is selected, and a failed copy does not keep the     *)
(* following files from being copied; with directory creation failing it    *)
(* returns a single entry with success = FALSE.                             *)
C24_OneResultPerSelection ==
    impPc = "returned" =>
        IF disk[modelsPath] = "dir"
        THEN /\ Len(impResult) =
                    Len(selectedFiles) + (IF dicomFolder = << >> THEN 0 ELSE 1)
             /\ \A i \in DOMAIN selectedFiles :
                    LET destinationPath == join(modelsPath, basename(selectedFiles[i]))
                    IN  IF IsRegularFile(disk[selectedFiles[i]])
                        THEN /\ impResult[i] = Success(destinationPath)
                             /\ IsRegularFile(disk[destinationPath])
                        ELSE ~impResult[i].success
             /\ (dicomFolder # << >> /\ impResult[Len(impResult)].success) =>
                    impResult[Len(impResult)].destinationPath = dicomPath \o dicomFolder
        ELSE /\ Len(impResult) = 1
             /\ ~impResult[1].success

C24_Witness ==
    /\ impPc = "returned"
    /\ Len(selectedFiles) = 2
    /\ dicomFolder # << >>
    /\ Len(impResult) = 3
    /\ ~impResult[1].success
    /\ impResult[2].success
    /\ impResult[3].success

(* C28: copyPngFilesFromFolder leaves the source folder as it was, puts a   *)
(* file into Assets/Resources/DICOM/<folder> only at the relative path of a *)
(* source file whose name ends in .png in any letter case, with that file's *)
(* content, and when the folder copy succeeds every such file is there,     *)
(* those of subfolders included.                                            *)
C28_Step ==
    /\ \A p \in ScanPaths : disk'[p] = disk[p]
    /\ \A p \in ScanPaths :
          IsRegularFile(disk'[dicomPath \o p]) =>
              /\ NameToLowerCase(basename(p)) \in PngNames
              /\ disk'[dicomPath \o p] = disk'[p]
    /\ (impPc' = "returned" /\ dicomFolder' # << >> /\ impResult' # << >>
            /\ impResult'[Len(impResult')].success) =>
          \A p \in ScanPaths :
              (IsRegularFile(disk'[p]) /\ NameToLowerCase(basename(p)) \in PngNames) =>
                  disk'[dicomPath \o p] = disk'[p]

C28_OnlyPngCopied == [][C28_Step]_vars

C28_Witness ==
    /\ impPc = "returned"
    /\ dicomFolder = scanFolder
    /\ impResult[Len(impResult)].success
    /\ IsRegularFile(disk[dicomPath \o <<"scan", "J.PNG">>])
    /\ IsRegularFile(disk[dicomPath \o <<"scan", "sub", "i.png">>])
    /\ IsRegularFile(disk[<<"scan", "k.dcm">>])
    /\ IsRegularFile(disk[<<"scan", "sub", "k.dcm">>])
    /\ disk[dicomPath \o <<"scan", "k.dcm">>] = ""
    /\ disk[dicomPath \o <<"scan", "sub", "k.dcm">>] = ""

(* C25: build-unity spawns the Unity process only after it has checked, in  *)
(* this order, that the project path exists, that BuildScript.cs exists and *)
(* that a Unity executable was found; a result once settled never changes,  *)
(* also when both 'error' and 'close' fire; success = TRUE only with exit   *)
(* code 0 and Build/UWP present; and the promise does settle.               *)
C25_Step ==
    /\ (proc'.spawned /\ ~proc.spawned) =>
          /\ checked = <<"project", "buildScript", "unityExecutable">>
          /\ buildDisk.project
          /\ buildDisk.buildScript
          /\ unityExecutable # ""
    /\ buildResult.settled => buildResult' = buildResult
    /\ buildResult'.success => (code' = 0 /\ buildExists' /\ buildDisk'.buildUwp)

C27_ButtonFolderHoldsOneFile ==
    (impPc = "returned" /\ disk[modelsPath] = "dir") =>
        \A n \in DOMAIN selectedFiles :
            IF n > MaxButtons
            THEN FolderFiles(disk, n) = {}
            ELSE (selectedFiles[n] # << >> /\ IsRegularFile(disk[selectedFiles[n]])) =>
                    /\ FolderFiles(disk, n) = {basename(selectedFiles[n])}
                    /\ disk[join(buttonFolderPath(n), basename(selectedFiles[n]))]
                          = disk[selectedFiles[n]]

(* C26: whatever the sequence of setMainWindow, console calls, window close *)
(* and cleanup, a console call invokes the original method exactly once and *)
(* sends at most one 'console-log' message, none when mainWindow is null or *)
(* destroyed; right after cleanup the four console methods are the ones     *)
(* captured at construction.                                                *)
C26_LoggerForwardsOnce ==
    /\ lastOp = "call" =>
          /\ lastCall.originalCalls = 1
          /\ lastCall.sent <= 1
          /\ ~lastCall.alive => lastCall.sent = 0
    /\ lastOp = "cleanup" => console = originalMethods

C26_Witness ==
    /\ lastOp = "call"
    /\ console["warn"] = "override"
    /\ lastCall.level = "warn"
    /\ mainWindow = 1
    /\ destroyed = {1}
    /\ lastCall.sent = 0
    /\ lastCall.originalCalls = 1

(* C29: every importToUnity call of the wizard was made with a Unity        *)
(* project path and with a model file or a DICOM folder; isExecuting is     *)
(* true while the call is outstanding and false once handleImport is        *)
(* through with it, whether the call resolved or threw, and it is true only *)
(* from setIsExecuting(true) to the finally block of that one call.         *)
C29_ExecutingWhileOutstanding ==
    /\ \A i \in DOMAIN invoked :
          /\ invoked[i].unityProjectPath # ""
          /\ Len(invoked[i].selectedFiles) > 0 \/ invoked[i].selectedDicomFolder # ""
    /\ handleImportPc = "outstanding" => isExecuting
    /\ isExecuting <=> handleImportPc \in {"try", "outstanding", "finally"}

C29_Witness ==
    /\ Len(invoked) = 2
    /\ invoked[1].selectedFiles = << >>
    /\ invoked[1].selectedDicomFolder = "scan"
    /\ Len(invoked[2].selectedFiles) = 2
    /\ status = "An unexpected error occurred while importing the files."
    /\ handleImportPc = "idle"
    /\ ~isExecuting

====
